---- MODULE Spec2Model ----
(***************************************************************************)
(* A model of DistroVitals: the snapshot store (crates/database), the      *)
(* health analyzer (crates/analyzer) and the callers that drive them.      *)
(*                                                                         *)
(* Numbers.  Scores are f64 in the source.  Every score the analyzer forms *)
(* is a fixed weighted sum of bucket values, a multiple of 0.001, so a     *)
(* score s is held here as the integer s * Milli.  Metrics are i64 in the  *)
(* source; they are held at a width of IntBits bits (two's complement), so *)
(* that a sum that leaves the range wraps (release build) or panics (build *)
(* with overflow checks), as `Iterator::sum` does.                         *)
(*                                                                         *)
(* Time.  Timestamps are whole seconds (SQLite datetime('now')).  A day is *)
(* DayLen seconds long in the model.                                       *)
(***************************************************************************)
EXTENDS Integers, Sequences, FiniteSets, TLC

VARIABLES
    now,                 \* the wall clock, in seconds
    overflow_checks,     \* the build: TRUE when integer overflow panics
    github_snapshots,    \* table github_snapshots, in rowid order
    community_snapshots, \* table community_snapshots, in rowid order
    release_snapshots,   \* table release_snapshots, in rowid order
    health_scores,       \* table health_scores, in rowid order
    distributions,       \* table distributions, in id order
    calc,                \* each caller's invocation of calculate_health_score
    fn_arg,              \* the arguments of a function called on its own
    fn_ret               \* what that call returned, an Option

vars == <<now, overflow_checks, github_snapshots, community_snapshots,
          release_snapshots, health_scores, distributions, calc,
          fn_arg, fn_ret>>

\* ------------------------------------------------------------------ bounds

MaxNow == 1          \* the clock stops here
MaxSnapshots == 2    \* Spec: rows in the three snapshot tables together
MaxConcurrent == 1   \* SpecConcurrent: rows in github_snapshots
MaxEntities == 2     \* SpecEntities: rows in the snapshot tables together
MaxRanked == 1       \* SpecRankings: rows in the snapshot tables together
MaxStore == 3        \* SpecStore: rows in the three snapshot tables together
MaxRepos == 2        \* rows of a snapshot set given to a function called on its own
MaxSummed == 3       \* SpecDevelopment, SpecMaintenance: rows of a summed snapshot set
MaxTrend == 60       \* SpecTrend: overall scores differ by up to MaxTrend tenths
MaxScores == 2       \* rows in health_scores
JulianDays == 3      \* days from the first date SQLite's datetime can give to second 0
MaxTriggered == 3    \* SpecTrigger: rows in the snapshot tables together
DayLen == 2          \* seconds in a day

\* ----------------------------------------------------------------- numbers

Milli == 10 * 10 * 10
IntBits == 10 * 3
IntMax == 2 ^ (IntBits - 1) - 1
IntMin == -(2 ^ (IntBits - 1))

None == <<>>
Some(v) == <<v>>
is_some(o) == o # <<>>
unwrap(o) == o[1]

Min(a, b) == IF a <= b THEN a ELSE b

\* i64 addition in a release build
wrapping_add(a, b) ==
    LET s == a + b
    IN  IF s > IntMax THEN s - 2 ^ IntBits
        ELSE IF s < IntMin THEN s + 2 ^ IntBits
        ELSE s

overflows(a, b) == a + b > IntMax \/ a + b < IntMin

\* Iterator::sum over i64: the wrapped total, and whether a step overflowed
RECURSIVE sum_from(_, _, _)
sum_from(xs, i, acc) ==
    IF i > Len(xs) THEN acc
    ELSE sum_from(xs, i + 1,
                  [v |-> wrapping_add(acc.v, xs[i]),
                   overflow |-> acc.overflow \/ overflows(acc.v, xs[i])])

sum(xs) == sum_from(xs, 1, [v |-> 0, overflow |-> FALSE])

\* TimeDelta::num_days: whole days, truncated toward zero
num_days(seconds) ==
    IF seconds >= 0 THEN seconds \div DayLen ELSE -((-seconds) \div DayLen)

\* ---------------------------------------------------------------- analyzer

\* iter().map(|s| s.<field>) over snapshot rows
stars_of(github) == [i \in 1..Len(github) |-> github[i].stars]
forks_of(github) == [i \in 1..Len(github) |-> github[i].forks]
open_issues_of(github) == [i \in 1..Len(github) |-> github[i].open_issues]
open_prs_of(github) == [i \in 1..Len(github) |-> github[i].open_prs]
commits_30d_of(github) == [i \in 1..Len(github) |-> github[i].commits_30d]
contributors_30d_of(github) ==
    [i \in 1..Len(github) |-> github[i].contributors_30d]

commit_score(total_commits) ==
    IF total_commits >= 0 /\ total_commits <= 10 THEN 20 * Milli
    ELSE IF total_commits >= 11 /\ total_commits <= 50 THEN 40 * Milli
    ELSE IF total_commits >= 51 /\ total_commits <= 200 THEN 60 * Milli
    ELSE IF total_commits >= 201 /\ total_commits <= 500 THEN 80 * Milli
    ELSE 95 * Milli

contributor_score(total_contributors) ==
    IF total_contributors >= 0 /\ total_contributors <= 2 THEN 20 * Milli
    ELSE IF total_contributors >= 3 /\ total_contributors <= 10 THEN 40 * Milli
    ELSE IF total_contributors >= 11 /\ total_contributors <= 30 THEN 60 * Milli
    ELSE IF total_contributors >= 31 /\ total_contributors <= 100 THEN 80 * Milli
    ELSE 95 * Milli

\* calculate_development_score with an entity without snapshots scored 0
calculate_development_score_unscored(github) ==
    IF github = <<>> THEN 0
    ELSE LET total_commits == sum(commits_30d_of(github)).v
             total_contributors == sum(contributors_30d_of(github)).v
         IN  Min((commit_score(total_commits) * 6
                  + contributor_score(total_contributors) * 4) \div 10,
                 100 * Milli)

calculate_development_score(github) ==
    IF github = <<>> THEN 50 * Milli
    ELSE LET total_commits == sum(commits_30d_of(github)).v
             total_contributors == sum(contributors_30d_of(github)).v
         IN  Min((commit_score(total_commits) * 6
                  + contributor_score(total_contributors) * 4) \div 10,
                 100 * Milli)

star_score(total_stars) ==
    IF total_stars >= 0 /\ total_stars <= 100 THEN 20 * Milli
    ELSE IF total_stars >= 101 /\ total_stars <= 1000 THEN 40 * Milli
    ELSE IF total_stars >= 1001 /\ total_stars <= 5000 THEN 60 * Milli
    ELSE IF total_stars >= 5001 /\ total_stars <= 20000 THEN 80 * Milli
    ELSE 95 * Milli

fork_score(total_forks) ==
    IF total_forks >= 0 /\ total_forks <= 10 THEN 20 * Milli
    ELSE IF total_forks >= 11 /\ total_forks <= 100 THEN 40 * Milli
    ELSE IF total_forks >= 101 /\ total_forks <= 500 THEN 60 * Milli
    ELSE IF total_forks >= 501 /\ total_forks <= 2000 THEN 80 * Milli
    ELSE 95 * Milli

\* starts_with_reddit as str::contains("reddit:")
contains_reddit(source) == \E i \in 1..Len(source) : source[i] = "reddit:"

\* str::starts_with("reddit:") on a source name held as its segments
starts_with_reddit(source) == Len(source) >= 1 /\ source[1] = "reddit:"

\* str::strip_prefix("reddit:r/")
strip_prefix_reddit_r(source) ==
    IF Len(source) >= 2 /\ source[1] = "reddit:" /\ source[2] = "r/"
    THEN Some(SubSeq(source, 3, Len(source)))
    ELSE None

is_reddit(c) == starts_with_reddit(c.source)

\* filter_map over a sequence of Options: the values present, in order
RECURSIVE filter_map_from(_, _)
filter_map_from(opts, i) ==
    IF i > Len(opts) THEN <<>>
    ELSE opts[i] \o filter_map_from(opts, i + 1)

filter_map(opts) == filter_map_from(opts, 1)

active_users_30d_of(community) ==
    filter_map([i \in 1..Len(community) |-> community[i].active_users_30d])
posts_30d_of(community) ==
    filter_map([i \in 1..Len(community) |-> community[i].posts_30d])
last_commit_at_of(github) ==
    filter_map([i \in 1..Len(github) |-> github[i].last_commit_at])

subscriber_score(total_subscribers) ==
    IF total_subscribers >= 0 /\ total_subscribers <= 1000 THEN 20 * Milli
    ELSE IF total_subscribers >= 1001 /\ total_subscribers <= 5000 THEN 30 * Milli
    ELSE IF total_subscribers >= 5001 /\ total_subscribers <= 15000 THEN 45 * Milli
    ELSE IF total_subscribers >= 15001 /\ total_subscribers <= 50000 THEN 60 * Milli
    ELSE IF total_subscribers >= 50001 /\ total_subscribers <= 100000 THEN 75 * Milli
    ELSE IF total_subscribers >= 100001 /\ total_subscribers <= 200000 THEN 85 * Milli
    ELSE 95 * Milli

activity_score(total_posts) ==
    IF total_posts >= 0 /\ total_posts <= 10 THEN 20 * Milli
    ELSE IF total_posts >= 11 /\ total_posts <= 30 THEN 40 * Milli
    ELSE IF total_posts >= 31 /\ total_posts <= 60 THEN 60 * Milli
    ELSE IF total_posts >= 61 /\ total_posts <= 100 THEN 80 * Milli
    ELSE 95 * Milli

calculate_reddit_score(community) ==
    LET reddit_snapshots == SelectSeq(community, is_reddit)
    IN  IF reddit_snapshots = <<>> THEN 0
        ELSE LET total_subscribers ==
                     sum(active_users_30d_of(reddit_snapshots)).v
                 total_posts ==
                     sum(posts_30d_of(reddit_snapshots)).v
             IN  (subscriber_score(total_subscribers) * 7
                  + activity_score(total_posts) * 3) \div 10

github_component(github) ==
    IF github = <<>> THEN 50 * Milli
    ELSE LET total_stars == sum(stars_of(github)).v
             total_forks == sum(forks_of(github)).v
         IN  (star_score(total_stars) * 5 + fork_score(total_forks) * 5) \div 10

\* calculate_community_score with the social component added on top of the
\* whole platform component
calculate_community_score_bonus(github, community) ==
    LET github_score == github_component(github)
        reddit_score == calculate_reddit_score(community)
    IN  IF reddit_score > 0
        THEN Min((github_score * 10 + reddit_score * 6) \div 10, 100 * Milli)
        ELSE Min(github_score, 100 * Milli)

calculate_community_score(github, community) ==
    LET github_score == github_component(github)
        reddit_score == calculate_reddit_score(community)
    IN  IF reddit_score > 0
        THEN Min((github_score * 4 + reddit_score * 6) \div 10, 100 * Milli)
        ELSE Min(github_score, 100 * Milli)

\* issue_score with nothing given for more than 1000 open issues
issue_score_zero(total_issues) ==
    IF total_issues >= 0 /\ total_issues <= 10 THEN 90 * Milli
    ELSE IF total_issues >= 11 /\ total_issues <= 50 THEN 80 * Milli
    ELSE IF total_issues >= 51 /\ total_issues <= 200 THEN 70 * Milli
    ELSE IF total_issues >= 201 /\ total_issues <= 500 THEN 50 * Milli
    ELSE IF total_issues >= 501 /\ total_issues <= 1000 THEN 30 * Milli
    ELSE 0

issue_score(total_issues) ==
    IF total_issues >= 0 /\ total_issues <= 10 THEN 90 * Milli
    ELSE IF total_issues >= 11 /\ total_issues <= 50 THEN 80 * Milli
    ELSE IF total_issues >= 51 /\ total_issues <= 200 THEN 70 * Milli
    ELSE IF total_issues >= 201 /\ total_issues <= 500 THEN 50 * Milli
    ELSE IF total_issues >= 501 /\ total_issues <= 1000 THEN 30 * Milli
    ELSE 20 * Milli

pr_score(total_prs) ==
    IF total_prs >= 0 /\ total_prs <= 5 THEN 90 * Milli
    ELSE IF total_prs >= 6 /\ total_prs <= 20 THEN 80 * Milli
    ELSE IF total_prs >= 21 /\ total_prs <= 50 THEN 70 * Milli
    ELSE IF total_prs >= 51 /\ total_prs <= 100 THEN 50 * Milli
    ELSE 30 * Milli

days_ago_score(days_ago) ==
    IF days_ago >= 0 /\ days_ago <= 7 THEN 100 * Milli
    ELSE IF days_ago >= 8 /\ days_ago <= 30 THEN 80 * Milli
    ELSE IF days_ago >= 31 /\ days_ago <= 90 THEN 60 * Milli
    ELSE IF days_ago >= 91 /\ days_ago <= 180 THEN 40 * Milli
    ELSE 20 * Milli

\* Iterator::max over the last-commit timestamps that are present
RECURSIVE max_from(_, _, _)
max_from(xs, i, best) ==
    IF i > Len(xs) THEN best
    ELSE max_from(xs, i + 1,
                  IF best = None \/ xs[i] >= unwrap(best) THEN Some(xs[i]) ELSE best)

max(xs) == max_from(xs, 1, None)

\* utc_now is the value Utc::now() returns inside the function
recency_score(github, utc_now) ==
    LET last == max(last_commit_at_of(github))
    IN  IF is_some(last)
        THEN days_ago_score(num_days(utc_now - unwrap(last)))
        ELSE 50 * Milli

calculate_maintenance_score(github, utc_now) ==
    IF github = <<>> THEN 50 * Milli
    ELSE LET total_issues == sum(open_issues_of(github)).v
             total_prs == sum(open_prs_of(github)).v
         IN  Min((issue_score(total_issues) * 3 + pr_score(total_prs) * 3
                  + recency_score(github, utc_now) * 4) \div 10,
                 100 * Milli)

\* overall_of with the maintenance weight 0.4 in place of 0.3
overall_of_heavy(development_score, community_score, maintenance_score) ==
    (development_score * 4 + community_score * 3 + maintenance_score * 4) \div 10

\* overall_of with the development and community weights exchanged
overall_of_swapped(development_score, community_score, maintenance_score) ==
    (development_score * 3 + community_score * 4 + maintenance_score * 3) \div 10

overall_of(development_score, community_score, maintenance_score) ==
    (development_score * 4 + community_score * 3 + maintenance_score * 3) \div 10

\* determine_trend with the thresholds included
determine_trend_inclusive(current, previous) ==
    IF is_some(previous)
    THEN LET diff == current - unwrap(previous).overall_score
         IN  IF diff >= 2 * Milli THEN "up"
             ELSE IF diff <= -(2 * Milli) THEN "down"
             ELSE "stable"
    ELSE "stable"

determine_trend(current, previous) ==
    IF is_some(previous)
    THEN LET diff == current - unwrap(previous).overall_score
         IN  IF diff > 2 * Milli THEN "up"
             ELSE IF diff < -(2 * Milli) THEN "down"
             ELSE "stable"
    ELSE "stable"

\* Whether one of the sums the three sub-scores form overflows i64; with
\* overflow checks compiled in, Iterator::sum then panics.
sum_overflows(github, community) ==
    LET reddit_snapshots == SelectSeq(community, is_reddit)
    IN  \/ /\ github # <<>>
           /\ \/ sum(commits_30d_of(github)).overflow
              \/ sum(contributors_30d_of(github)).overflow
              \/ sum(stars_of(github)).overflow
              \/ sum(forks_of(github)).overflow
              \/ sum(open_issues_of(github)).overflow
              \/ sum(open_prs_of(github)).overflow
        \/ /\ reddit_snapshots # <<>>
           /\ \/ sum(active_users_30d_of(reddit_snapshots)).overflow
              \/ sum(posts_30d_of(reddit_snapshots)).overflow

\* The NewHealthScore calculate_health_score builds from what it read
new_health_score(distro_id, github, community, previous, utc_now) ==
    LET development_score == calculate_development_score(github)
        community_score == calculate_community_score(github, community)
        maintenance_score == calculate_maintenance_score(github, utc_now)
        overall_score ==
            overall_of(development_score, community_score, maintenance_score)
    IN  [distro_id |-> distro_id,
         overall_score |-> overall_score,
         development_score |-> development_score,
         community_score |-> community_score,
         maintenance_score |-> maintenance_score,
         trend |-> determine_trend(overall_score, previous)]

\* RawMetrics::default() with a release reported today
DefaultMetrics_released ==
    [repos_tracked |-> 0, total_stars |-> 0, total_forks |-> 0,
     total_contributors |-> 0, commits_30d |-> 0, open_issues |-> 0,
     open_prs |-> 0, total_releases |-> 0, releases_30d |-> 0,
     latest_release |-> None, days_since_release |-> Some(0),
     reddit_subscribers |-> 0, reddit_posts_30d |-> 0, subreddit |-> None]

\* RawMetrics::default()
DefaultMetrics ==
    [repos_tracked |-> 0, total_stars |-> 0, total_forks |-> 0,
     total_contributors |-> 0, commits_30d |-> 0, open_issues |-> 0,
     open_prs |-> 0, total_releases |-> 0, releases_30d |-> 0,
     latest_release |-> None, days_since_release |-> None,
     reddit_subscribers |-> 0, reddit_posts_30d |-> 0, subreddit |-> None]

\* RawMetrics::from_github_snapshots
from_github_snapshots(snapshots) ==
    [DefaultMetrics EXCEPT
        !.repos_tracked = Len(snapshots),
        !.total_stars = sum(stars_of(snapshots)).v,
        !.total_forks = sum(forks_of(snapshots)).v,
        !.total_contributors = sum(contributors_30d_of(snapshots)).v,
        !.commits_30d = sum(commits_30d_of(snapshots)).v,
        !.open_issues = sum(open_issues_of(snapshots)).v,
        !.open_prs = sum(open_prs_of(snapshots)).v]

\* RawMetrics::with_community, from the i-th snapshot on
RECURSIVE with_community_from(_, _, _)
with_community_from(self, community, i) ==
    IF i > Len(community) THEN self
    ELSE LET snap == community[i]
         IN  IF ~starts_with_reddit(snap.source)
             THEN with_community_from(self, community, i + 1)
             ELSE with_community_from(
                      [self EXCEPT
                          !.reddit_subscribers =
                              IF is_some(snap.active_users_30d)
                              THEN wrapping_add(@, unwrap(snap.active_users_30d))
                              ELSE @,
                          !.reddit_posts_30d =
                              IF is_some(snap.posts_30d)
                              THEN wrapping_add(@, unwrap(snap.posts_30d))
                              ELSE @,
                          !.subreddit =
                              IF @ = None
                              THEN strip_prefix_reddit_r(snap.source)
                              ELSE @],
                      community, i + 1)

with_community(self, community) == with_community_from(self, community, 1)

\* Option<DateTime> keys as max_by_key compares them: None below every Some
key_le(a, b) == a = None \/ (b # None /\ unwrap(a) <= unwrap(b))

\* Iterator::max_by_key(|r| r.published_at): the last of the greatest
RECURSIVE max_by_key_from(_, _, _)
max_by_key_from(xs, i, best) ==
    IF i > Len(xs) THEN best
    ELSE max_by_key_from(xs, i + 1,
             IF best = None
                \/ key_le(unwrap(best).published_at, xs[i].published_at)
             THEN Some(xs[i]) ELSE best)

\* the filter that lets every release through
is_any_release(r) == TRUE

\* filter(|r| !r.is_prerelease)
is_stable_release(r) == ~r.is_prerelease

\* RawMetrics::with_releases; utc_now is the value Utc::now() returns
with_releases(self, releases, utc_now) ==
    LET stable == SelectSeq(releases, is_stable_release)
        thirty_days_ago == utc_now - 30 * DayLen
        recent == SelectSeq(stable,
                      LAMBDA r : /\ is_some(r.published_at)
                                 /\ unwrap(r.published_at) > thirty_days_ago)
        latest == max_by_key_from(stable, 1, None)
    IN  [self EXCEPT
            !.total_releases = Len(releases),
            !.releases_30d = Len(recent),
            !.latest_release =
                IF is_some(latest) THEN Some(unwrap(latest).tag_name) ELSE @,
            !.days_since_release =
                IF is_some(latest) /\ is_some(unwrap(latest).published_at)
                THEN Some(num_days(utc_now
                                   - unwrap(unwrap(latest).published_at)))
                ELSE @]

\* Whether an addition of the aggregation overflows i64; with overflow checks
\* compiled in, the aggregation then panics
RECURSIVE community_overflows_from(_, _, _)
community_overflows_from(self, community, i) ==
    IF i > Len(community) THEN FALSE
    ELSE LET snap == community[i]
         IN  \/ /\ starts_with_reddit(snap.source)
                /\ \/ /\ is_some(snap.active_users_30d)
                      /\ overflows(self.reddit_subscribers,
                                   unwrap(snap.active_users_30d))
                   \/ /\ is_some(snap.posts_30d)
                      /\ overflows(self.reddit_posts_30d,
                                   unwrap(snap.posts_30d))
             \/ community_overflows_from(
                    with_community_from(self, <<snap>>, 1), community, i + 1)

metrics_overflow(github, community) ==
    \/ sum(stars_of(github)).overflow
    \/ sum(forks_of(github)).overflow
    \/ sum(contributors_30d_of(github)).overflow
    \/ sum(commits_30d_of(github)).overflow
    \/ sum(open_issues_of(github)).overflow
    \/ sum(open_prs_of(github)).overflow
    \/ community_overflows_from(DefaultMetrics, community, 1)

\* ------------------------------------------------------------------- store

\* SEED_DATA: the tracked distributions, in id order
SeedDistributions ==
    << [id |-> 1, name |-> "Arch Linux", slug |-> "arch",
        github_org |-> Some("archlinux"), subreddit |-> Some("archlinux")],
       [id |-> 2, name |-> "Debian", slug |-> "debian",
        github_org |-> None, subreddit |-> Some("debian")] >>

DistroIds == {SeedDistributions[i].id : i \in 1..Len(SeedDistributions)}

\* The repository names and source names of the model, each in the order
\* SQLite's ORDER BY gives them (ascending text)
RepoNames == << "archlinux/a", "archlinux/b" >>

CommunitySources ==
    << << "forum:", "arch" >>, << "reddit:", "r/", "archlinux" >> >>

TagNames == << "v1", "v2" >>

\* The rows of `table` for which keep[i] holds, in the table's order
RECURSIVE select_from(_, _, _)
select_from(table, keep, i) ==
    IF i > Len(table) THEN <<>>
    ELSE (IF keep[i] THEN <<table[i]>> ELSE <<>>) \o select_from(table, keep, i + 1)

\* MAX(collected_at) ... WHERE distro_id = ? GROUP BY repo_name, for one group
max_collected_github(table, distro_id, repo_name) ==
    LET times == {table[i].collected_at : i \in
                    {j \in 1..Len(table) : /\ table[j].distro_id = distro_id
                                           /\ table[j].repo_name = repo_name}}
    IN  CHOOSE t \in times : \A u \in times : u <= t

has_github(table, distro_id, repo_name) ==
    \E j \in 1..Len(table) : /\ table[j].distro_id = distro_id
                             /\ table[j].repo_name = repo_name

\* The rows the INNER JOIN keeps for one repo_name: those of the distribution
\* whose collected_at equals the group's maximum
latest_github_of_repo(table, distro_id, repo_name) ==
    IF ~has_github(table, distro_id, repo_name) THEN <<>>
    ELSE select_from(table,
            [i \in 1..Len(table) |->
                /\ table[i].distro_id = distro_id
                /\ table[i].repo_name = repo_name
                /\ table[i].collected_at
                     = max_collected_github(table, distro_id, repo_name)],
            1)

RECURSIVE latest_github_from(_, _, _)
latest_github_from(table, distro_id, k) ==
    IF k > Len(RepoNames) THEN <<>>
    ELSE latest_github_of_repo(table, distro_id, RepoNames[k])
         \o latest_github_from(table, distro_id, k + 1)

\* Database::get_latest_github_snapshots: ORDER BY g.repo_name
get_latest_github_snapshots(table, distro_id) ==
    latest_github_from(table, distro_id, 1)

max_collected_community(table, distro_id, source) ==
    LET times == {table[i].collected_at : i \in
                    {j \in 1..Len(table) : /\ table[j].distro_id = distro_id
                                           /\ table[j].source = source}}
    IN  CHOOSE t \in times : \A u \in times : u <= t

has_community(table, distro_id, source) ==
    \E j \in 1..Len(table) : /\ table[j].distro_id = distro_id
                             /\ table[j].source = source

latest_community_of_source(table, distro_id, source) ==
    IF ~has_community(table, distro_id, source) THEN <<>>
    ELSE select_from(table,
            [i \in 1..Len(table) |->
                /\ table[i].distro_id = distro_id
                /\ table[i].source = source
                /\ table[i].collected_at
                     = max_collected_community(table, distro_id, source)],
            1)

RECURSIVE latest_community_from(_, _, _)
latest_community_from(table, distro_id, k) ==
    IF k > Len(CommunitySources) THEN <<>>
    ELSE latest_community_of_source(table, distro_id, CommunitySources[k])
         \o latest_community_from(table, distro_id, k + 1)

\* get_latest_community_snapshots without WHERE distro_id = ?
get_latest_community_snapshots_all(table, distro_id) ==
    latest_community_from(table, 1, 1) \o latest_community_from(table, 2, 1)

\* Database::get_latest_community_snapshots: ORDER BY c.source
get_latest_community_snapshots(table, distro_id) ==
    latest_community_from(table, distro_id, 1)

max_collected_release(table, distro_id, repo_name, tag_name) ==
    LET times == {table[i].collected_at : i \in
                    {j \in 1..Len(table) : /\ table[j].distro_id = distro_id
                                           /\ table[j].repo_name = repo_name
                                           /\ table[j].tag_name = tag_name}}
    IN  CHOOSE t \in times : \A u \in times : u <= t

has_release(table, distro_id, repo_name, tag_name) ==
    \E j \in 1..Len(table) : /\ table[j].distro_id = distro_id
                             /\ table[j].repo_name = repo_name
                             /\ table[j].tag_name = tag_name

\* The joined rows, before ORDER BY: a row is kept when its collected_at is
\* the maximum of its (repo_name, tag_name) group
latest_release_rows(table, distro_id) ==
    select_from(table,
        [i \in 1..Len(table) |->
            /\ table[i].distro_id = distro_id
            /\ table[i].collected_at
                 = max_collected_release(table, distro_id,
                                         table[i].repo_name, table[i].tag_name)],
        1)

\* The scores of a distribution with the greatest calculated_at: the rows
\* ORDER BY calculated_at DESC LIMIT 1 may return (SQL leaves the order of
\* rows with equal keys open)
latest_health_score_rows(table, distro_id) ==
    {i \in 1..Len(table) :
        /\ table[i].distro_id = distro_id
        /\ \A j \in 1..Len(table) :
              table[j].distro_id = distro_id
                  => table[j].calculated_at <= table[i].calculated_at}

\* Database::get_latest_health_score: the Options it may return
get_latest_health_score(table, distro_id) ==
    IF latest_health_score_rows(table, distro_id) = {} THEN {None}
    ELSE {Some(table[i]) : i \in latest_health_score_rows(table, distro_id)}

\* The names of the distributions in ascending text order
NameOrder == << "Arch Linux", "Debian" >>

RECURSIVE distributions_from(_, _)
distributions_from(table, k) ==
    IF k > Len(NameOrder) THEN <<>>
    ELSE SelectSeq(table, LAMBDA d : d.name = NameOrder[k])
         \o distributions_from(table, k + 1)

\* Database::get_distributions: ORDER BY name
get_distributions(table) == distributions_from(table, 1)

\* The scores joined with their distribution's MAX(calculated_at)
all_latest_health_score_rows(table) ==
    {i \in 1..Len(table) :
        \A j \in 1..Len(table) :
            table[j].distro_id = table[i].distro_id
                => table[j].calculated_at <= table[i].calculated_at}

\* Database::get_all_latest_health_scores: the row sequences ORDER BY
\* h.overall_score DESC may return (rows of equal score in either order)
get_all_latest_health_scores(table) ==
    LET rows == all_latest_health_score_rows(table)
        n == Cardinality(rows)
    IN  {[k \in 1..n |-> table[f[k]]] :
            f \in {g \in [1..n -> rows] :
                      /\ \A a, b \in 1..n : a # b => g[a] # g[b]
                      /\ \A a \in 1..(n - 1) :
                            table[g[a]].overall_score
                                >= table[g[a + 1]].overall_score}}

\* published_at keys as ORDER BY ... DESC puts them: NULL after every value
desc_le(a, b) == b = None \/ (a # None /\ unwrap(a) >= unwrap(b))

\* Database::get_latest_release_snapshots: the row sequences ORDER BY
\* r.published_at DESC may return
get_latest_release_snapshots(table, distro_id) ==
    LET rows == latest_release_rows(table, distro_id)
        n == Len(rows)
    IN  {[k \in 1..n |-> rows[f[k]]] :
            f \in {g \in [1..n -> 1..n] :
                      /\ \A a, b \in 1..n : a # b => g[a] # g[b]
                      /\ \A a \in 1..(n - 1) :
                            desc_le(rows[g[a]].published_at,
                                    rows[g[a + 1]].published_at)}}

\* datetime('now', format!("-{} days", days)): NULL when the text is no
\* modifier ("--1 days" for a negative days) or the date it gives lies before
\* the first one SQLite can give
datetime_days_ago(utc_now, days) ==
    IF days < 0 THEN None
    ELSE IF utc_now - days * DayLen < -(JulianDays * DayLen) THEN None
    ELSE Some(utc_now - days * DayLen)

\* The scores of a distribution WHERE calculated_at >= datetime('now', ?);
\* a comparison with NULL keeps no row
health_score_history_rows(table, distro_id, days, utc_now) ==
    {i \in 1..Len(table) :
        /\ table[i].distro_id = distro_id
        /\ datetime_days_ago(utc_now, days) # None
        /\ table[i].calculated_at >= unwrap(datetime_days_ago(utc_now, days))}

\* Database::get_health_score_history: the row sequences ORDER BY
\* calculated_at ASC may return
get_health_score_history(table, distro_id, days, utc_now) ==
    LET rows == health_score_history_rows(table, distro_id, days, utc_now)
        n == Cardinality(rows)
    IN  {[k \in 1..n |-> table[f[k]]] :
            f \in {g \in [1..n -> rows] :
                      /\ \A a, b \in 1..n : a # b => g[a] # g[b]
                      /\ \A a \in 1..(n - 1) :
                            table[g[a]].calculated_at
                                <= table[g[a + 1]].calculated_at}}

\* Database::get_distribution_by_slug: the row, or RowNotFound
get_distribution_by_slug(table, slug) ==
    IF \E i \in 1..Len(table) : table[i].slug = slug
    THEN Some(table[CHOOSE i \in 1..Len(table) : table[i].slug = slug])
    ELSE None

\* ------------------------------------------------------------------ inputs

\* The metrics a collected repository may report: a quiet repository, a busy
\* one, and one at the ends of the i64 range
GithubMetrics ==
    { [stars |-> 50, forks |-> 2, open_issues |-> 3, open_prs |-> 1,
       commits_30d |-> 5, commits_365d |-> 40, contributors_30d |-> 1,
       last_commit_at |-> Some(-(2 * DayLen))],
      [stars |-> 25000, forks |-> 3000, open_issues |-> 8, open_prs |-> 4,
       commits_30d |-> 600, commits_365d |-> 6000, contributors_30d |-> 120,
       last_commit_at |-> Some(-(8 * DayLen) + 1)],
      [stars |-> IntMax, forks |-> -1, open_issues |-> IntMax, open_prs |-> IntMin,
       commits_30d |-> IntMax, commits_365d |-> 0, contributors_30d |-> -5,
       last_commit_at |-> None] }

CommunityMetrics ==
    { [active_users_30d |-> None, posts_30d |-> None],
      [active_users_30d |-> Some(250000), posts_30d |-> Some(120)] }

ReleaseInputs ==
    { [published_at |-> Some(-1), is_prerelease |-> FALSE],
      [published_at |-> None, is_prerelease |-> TRUE] }

Procs == {"p1", "p2"}

Idle == [pc |-> "idle", distro_id |-> 0, github |-> <<>>, community |-> <<>>,
         previous |-> None, score |-> None, result |-> "none",
         failed_op |-> "none"]

\* ----------------------------------------------------------------- actions

\* The store after run_migrations, and no call in flight
InitStore ==
    /\ now = 0
    /\ overflow_checks \in BOOLEAN
    /\ distributions = SeedDistributions
    /\ github_snapshots = <<>>
    /\ community_snapshots = <<>>
    /\ release_snapshots = <<>>
    /\ health_scores = <<>>
    /\ calc = [p \in Procs |-> Idle]

Init ==
    /\ InitStore
    /\ fn_arg = None
    /\ fn_ret = None

snapshot_rows ==
    Len(github_snapshots) + Len(community_snapshots) + Len(release_snapshots)

\* One second passes
Tick ==
    /\ now < MaxNow
    /\ now' = now + 1
    /\ UNCHANGED <<fn_arg, fn_ret, overflow_checks, distributions,
                   github_snapshots, community_snapshots, release_snapshots,
                   health_scores, calc>>

\* insert_github_snapshot as INSERT OR REPLACE on (distro_id, repo_name)
insert_github_snapshot_replace(distro_id, repo_name, m) ==
    /\ github_snapshots' =
          Append(SelectSeq(github_snapshots,
                           LAMBDA s : ~(s.distro_id = distro_id
                                        /\ s.repo_name = repo_name)),
          [id |-> Len(github_snapshots) + 1, distro_id |-> distro_id,
           repo_name |-> repo_name, stars |-> m.stars, forks |-> m.forks,
           open_issues |-> m.open_issues, open_prs |-> m.open_prs,
           commits_30d |-> m.commits_30d, commits_365d |-> m.commits_365d,
           contributors_30d |-> m.contributors_30d,
           last_commit_at |-> m.last_commit_at, collected_at |-> now])
    /\ UNCHANGED <<fn_arg, fn_ret, now, overflow_checks, distributions,
                   community_snapshots, release_snapshots, health_scores, calc>>

\* Database::insert_github_snapshot, as GithubCollector::collect_repo calls it;
\* collected_at defaults to datetime('now')
insert_github_snapshot(distro_id, repo_name, m) ==
    /\ github_snapshots' = Append(github_snapshots,
          [id |-> Len(github_snapshots) + 1, distro_id |-> distro_id,
           repo_name |-> repo_name, stars |-> m.stars, forks |-> m.forks,
           open_issues |-> m.open_issues, open_prs |-> m.open_prs,
           commits_30d |-> m.commits_30d, commits_365d |-> m.commits_365d,
           contributors_30d |-> m.contributors_30d,
           last_commit_at |-> m.last_commit_at, collected_at |-> now])
    /\ UNCHANGED <<fn_arg, fn_ret, now, overflow_checks, distributions, community_snapshots,
                   release_snapshots, health_scores, calc>>

\* Database::insert_community_snapshot
insert_community_snapshot(distro_id, source, m) ==
    /\ community_snapshots' = Append(community_snapshots,
          [id |-> Len(community_snapshots) + 1, distro_id |-> distro_id,
           source |-> source, active_users_30d |-> m.active_users_30d,
           posts_30d |-> m.posts_30d, collected_at |-> now])
    /\ UNCHANGED <<fn_arg, fn_ret, now, overflow_checks, distributions, github_snapshots,
                   release_snapshots, health_scores, calc>>

\* Database::insert_release_snapshot
insert_release_snapshot(distro_id, repo_name, tag_name, r) ==
    /\ release_snapshots' = Append(release_snapshots,
          [id |-> Len(release_snapshots) + 1, distro_id |-> distro_id,
           repo_name |-> repo_name, tag_name |-> tag_name,
           published_at |-> r.published_at, is_prerelease |-> r.is_prerelease,
           collected_at |-> now])
    /\ UNCHANGED <<fn_arg, fn_ret, now, overflow_checks, distributions, github_snapshots,
                   community_snapshots, health_scores, calc>>

\* The frame of a caller whose invocation has returned `result`; failed_op
\* names the store call that answered Err, if one did
returned(distro_id, result, failed_op) ==
    [Idle EXCEPT !.distro_id = distro_id, !.result = result,
                 !.failed_op = failed_op]

\* on_store_error with the error swallowed: the invocation goes on to insert a
\* neutral score
on_store_error_neutral(distro_id, op) ==
    [Idle EXCEPT !.pc = "insert_health_score", !.distro_id = distro_id,
                 !.failed_op = op,
                 !.score = Some([distro_id |-> distro_id,
                                 overall_score |-> 50 * Milli,
                                 development_score |-> 50 * Milli,
                                 community_score |-> 50 * Milli,
                                 maintenance_score |-> 50 * Milli,
                                 trend |-> "stable"])]

\* What calculate_health_score does when the store call `op` returns Err: the
\* `?` returns the error to the caller
on_store_error(distro_id, op) == returned(distro_id, "err_database", op)

\* calculate_health_score is called; get_latest_github_snapshots answers
calc_github(p, distro_id, ok) ==
    /\ calc[p].pc = "idle"
    /\ calc' = [calc EXCEPT ![p] =
          IF ok
          THEN [Idle EXCEPT !.pc = "get_latest_community_snapshots",
                            !.distro_id = distro_id,
                            !.github = get_latest_github_snapshots(
                                           github_snapshots, distro_id)]
          ELSE on_store_error(distro_id, "get_latest_github_snapshots")]
    /\ UNCHANGED <<fn_arg, fn_ret, now, overflow_checks, distributions, github_snapshots,
                   community_snapshots, release_snapshots, health_scores>>

\* get_latest_community_snapshots answers
calc_community(p, ok) ==
    /\ calc[p].pc = "get_latest_community_snapshots"
    /\ calc' = [calc EXCEPT ![p] =
          IF ok
          THEN [calc[p] EXCEPT !.pc = "get_latest_health_score",
                               !.community = get_latest_community_snapshots(
                                   community_snapshots, calc[p].distro_id)]
          ELSE on_store_error(calc[p].distro_id,
                              "get_latest_community_snapshots")]
    /\ UNCHANGED <<fn_arg, fn_ret, now, overflow_checks, distributions, github_snapshots,
                   community_snapshots, release_snapshots, health_scores>>

\* get_latest_health_score answers `previous`; the scores and the trend are
\* computed, with Utc::now() read for the recency of the last commit.  With
\* overflow checks compiled in, a sum that overflows panics.
calc_previous(p, previous, ok) ==
    /\ calc[p].pc = "get_latest_health_score"
    /\ calc' = [calc EXCEPT ![p] =
          IF ~ok
          THEN on_store_error(calc[p].distro_id, "get_latest_health_score")
          ELSE IF overflow_checks
                  /\ sum_overflows(calc[p].github, calc[p].community)
          THEN returned(calc[p].distro_id, "panic", "none")
          ELSE [Idle EXCEPT !.pc = "insert_health_score",
                            !.distro_id = calc[p].distro_id,
                            !.previous = previous,
                            !.score = Some(new_health_score(
                                calc[p].distro_id, calc[p].github,
                                calc[p].community, previous, now))]]
    /\ UNCHANGED <<fn_arg, fn_ret, now, overflow_checks, distributions, github_snapshots,
                   community_snapshots, release_snapshots, health_scores>>

\* insert_health_score as an upsert: the entity's rows are replaced
insert_health_score_upsert(table, score) ==
    Append(SelectSeq(table, LAMBDA h : h.distro_id # score.distro_id),
        [id |-> Len(table) + 1, distro_id |-> score.distro_id,
         overall_score |-> score.overall_score,
         development_score |-> score.development_score,
         community_score |-> score.community_score,
         maintenance_score |-> score.maintenance_score,
         trend |-> score.trend, calculated_at |-> now])

\* Database::insert_health_score; calculated_at defaults to datetime('now')
insert_health_score(table, score) ==
    Append(table,
        [id |-> Len(table) + 1, distro_id |-> score.distro_id,
         overall_score |-> score.overall_score,
         development_score |-> score.development_score,
         community_score |-> score.community_score,
         maintenance_score |-> score.maintenance_score,
         trend |-> score.trend, calculated_at |-> now])

\* insert_health_score answers and calculate_health_score returns
calc_insert(p, ok) ==
    /\ calc[p].pc = "insert_health_score"
    /\ IF ok
       THEN /\ Len(health_scores) < MaxScores
            /\ health_scores' =
                   insert_health_score(health_scores, unwrap(calc[p].score))
            /\ calc' = [calc EXCEPT ![p] =
                           returned(calc[p].distro_id, "ok", "none")]
       ELSE /\ calc' = [calc EXCEPT ![p] =
                           on_store_error(calc[p].distro_id,
                                          "insert_health_score")]
            /\ UNCHANGED health_scores
    /\ UNCHANGED <<fn_arg, fn_ret, now, overflow_checks, distributions, github_snapshots,
                   community_snapshots, release_snapshots>>

\* The DistroHealthSummary get_rankings pushes for a score
scored_entry(d, score, rank, metrics) ==
    [slug |-> d.slug, name |-> d.name,
     overall_score |-> score.overall_score,
     development_score |-> score.development_score,
     community_score |-> score.community_score,
     maintenance_score |-> score.maintenance_score,
     trend |-> score.trend, rank |-> rank, metrics |-> metrics,
     github_org |-> d.github_org, subreddit |-> d.subreddit]

\* unscored_entry with the neutral score in place of the placeholder
unscored_entry_neutral(d, rank) ==
    [slug |-> d.slug, name |-> d.name, overall_score |-> 50 * Milli,
     development_score |-> 50 * Milli, community_score |-> 50 * Milli,
     maintenance_score |-> 50 * Milli, trend |-> "stable", rank |-> rank,
     metrics |-> DefaultMetrics, github_org |-> d.github_org,
     subreddit |-> d.subreddit]

\* The DistroHealthSummary get_rankings pushes for a distro without score
unscored_entry(d, rank) ==
    [slug |-> d.slug, name |-> d.name, overall_score |-> 0,
     development_score |-> 0, community_score |-> 0,
     maintenance_score |-> 0, trend |-> "unknown", rank |-> rank,
     metrics |-> DefaultMetrics, github_org |-> d.github_org,
     subreddit |-> d.subreddit]

\* get_rankings' first loop, from the k-th score on: metrics[id] is the
\* RawMetrics aggregated for the distribution
RECURSIVE scored_from(_, _, _, _)
scored_from(distros, scores, metrics, k) ==
    IF k > Len(scores) THEN <<>>
    ELSE LET found == SelectSeq(distros,
                          LAMBDA d : d.id = scores[k].distro_id)
         IN  (IF found = <<>> THEN <<>>
              ELSE <<scored_entry(found[1], scores[k], k,
                                  metrics[found[1].id])>>)
             \o scored_from(distros, scores, metrics, k + 1)

\* get_rankings' second loop, from the i-th distribution on
RECURSIVE unscored_from(_, _, _)
unscored_from(distros, rankings, i) ==
    IF i > Len(distros) THEN rankings
    ELSE unscored_from(distros,
             IF \E r \in 1..Len(rankings) : rankings[r].slug = distros[i].slug
             THEN rankings
             ELSE Append(rankings,
                         unscored_entry(distros[i], Len(rankings) + 1)),
             i + 1)

\* get_rankings is called: get_distributions and get_all_latest_health_scores
\* answer; an Err of either is the response
rankings_read(ok) ==
    /\ fn_arg = None
    /\ IF ok
       THEN /\ \E scores \in get_all_latest_health_scores(health_scores) :
                   fn_arg' = Some([distros |-> get_distributions(distributions),
                                   scores |-> scores])
            /\ fn_ret' = None
       ELSE /\ fn_ret' = Some([status |-> "err", rankings |-> <<>>])
            /\ UNCHANGED fn_arg
    /\ UNCHANGED <<now, overflow_checks, distributions, github_snapshots,
                   community_snapshots, release_snapshots, health_scores, calc>>

\* get_rankings reads the latest snapshots of every scored distribution (a
\* query that fails counts as empty, unwrap_or_default), aggregates them and
\* responds with the list
rankings_respond(ok_github, ok_releases, ok_community) ==
    /\ fn_arg # None
    /\ \E releases \in
           {f \in [DistroIds ->
                     UNION {get_latest_release_snapshots(release_snapshots, d) :
                               d \in DistroIds}] :
               \A d \in DistroIds :
                   f[d] \in get_latest_release_snapshots(release_snapshots, d)} :
          LET github == [d \in DistroIds |->
                            IF ok_github
                            THEN get_latest_github_snapshots(github_snapshots, d)
                            ELSE <<>>]
              community == [d \in DistroIds |->
                               IF ok_community
                               THEN get_latest_community_snapshots(
                                        community_snapshots, d)
                               ELSE <<>>]
              scored == {unwrap(fn_arg).scores[k].distro_id :
                            k \in 1..Len(unwrap(fn_arg).scores)}
              metrics == [d \in DistroIds |->
                             with_community(
                                 with_releases(
                                     from_github_snapshots(github[d]),
                                     IF ok_releases THEN releases[d] ELSE <<>>,
                                     now),
                                 community[d])]
          IN  fn_ret' =
                  IF /\ overflow_checks
                     /\ \E d \in scored :
                            metrics_overflow(github[d], community[d])
                  THEN Some([status |-> "panic", rankings |-> <<>>])
                  ELSE Some([status |-> "ok",
                             rankings |->
                                 unscored_from(
                                     unwrap(fn_arg).distros,
                                     scored_from(unwrap(fn_arg).distros,
                                                 unwrap(fn_arg).scores,
                                                 metrics, 1),
                                     1)])
    /\ fn_arg' = None
    /\ UNCHANGED <<now, overflow_checks, distributions, github_snapshots,
                   community_snapshots, release_snapshots, health_scores, calc>>

\* One step of a get_rankings request
get_rankings ==
    \/ \E ok \in BOOLEAN : rankings_read(ok)
    \/ \E ok_github, ok_releases, ok_community \in BOOLEAN :
           rankings_respond(ok_github, ok_releases, ok_community)

\* The slugs a request may name, and the days a history request may ask for
Slugs == {"arch", "debian", "nobody"}
HistoryDays == {-1, 0, 1, JulianDays, JulianDays + 1}

\* get_distro_history: 404 for an unknown slug, else the history of the
\* distribution, or the error of the query
get_distro_history(slug, days, ok) ==
    /\ fn_arg' = Some([slug |-> slug, days |-> days, utc_now |-> now])
    /\ LET distro == get_distribution_by_slug(distributions, slug)
       IN  IF distro = None
           THEN fn_ret' = Some([status |-> "not_found", history |-> <<>>])
           ELSE IF ~ok
           THEN fn_ret' = Some([status |-> "err", history |-> <<>>])
           ELSE \E history \in get_health_score_history(
                                   health_scores, unwrap(distro).id, days, now) :
                    fn_ret' = Some([status |-> "ok", history |-> history])
    /\ UNCHANGED <<now, overflow_checks, distributions, github_snapshots,
                   community_snapshots, release_snapshots, health_scores, calc>>

\* The github_snapshots table after collect_repo has inserted the snapshots of
\* the repositories in `repos` (the positions in RepoNames of those whose
\* collection succeeded), from the k-th repository of the organization on
RECURSIVE collect_repos_from(_, _, _, _, _)
collect_repos_from(table, distro_id, repos, m, k) ==
    IF k > Len(RepoNames) THEN table
    ELSE collect_repos_from(
             IF k \in repos
             THEN Append(table,
                      [id |-> Len(table) + 1, distro_id |-> distro_id,
                       repo_name |-> RepoNames[k], stars |-> m.stars,
                       forks |-> m.forks, open_issues |-> m.open_issues,
                       open_prs |-> m.open_prs, commits_30d |-> m.commits_30d,
                       commits_365d |-> m.commits_365d,
                       contributors_30d |-> m.contributors_30d,
                       last_commit_at |-> m.last_commit_at,
                       collected_at |-> now])
             ELSE table,
             distro_id, repos, m, k + 1)

\* The release_snapshots table after collect_repo_releases has inserted the
\* release r of the repositories in `repos`
RECURSIVE collect_releases_from(_, _, _, _, _)
collect_releases_from(table, distro_id, repos, r, k) ==
    IF k > Len(RepoNames) THEN table
    ELSE collect_releases_from(
             IF k \in repos
             THEN Append(table,
                      [id |-> Len(table) + 1, distro_id |-> distro_id,
                       repo_name |-> RepoNames[k], tag_name |-> TagNames[1],
                       published_at |-> r.published_at,
                       is_prerelease |-> r.is_prerelease,
                       collected_at |-> now])
             ELSE table,
             distro_id, repos, r, k + 1)

\* trigger_collection is called: get_distribution_by_slug answers; 404 for an
\* unknown slug; collection is skipped when no github_org is configured
trigger_start(slug) ==
    /\ fn_arg = None
    /\ calc["p1"] = Idle
    /\ LET distro == get_distribution_by_slug(distributions, slug)
       IN  IF distro = None
           THEN /\ fn_ret' = Some([status |-> "not_found", step |-> "none"])
                /\ UNCHANGED fn_arg
           ELSE /\ fn_arg' = Some([slug |-> slug, distro_id |-> unwrap(distro).id,
                                   pc |-> IF unwrap(distro).github_org # None
                                          THEN "collect_org_repos"
                                          ELSE "calculate_health_score"])
                /\ fn_ret' = None
    /\ UNCHANGED <<now, overflow_checks, distributions, github_snapshots,
                   community_snapshots, release_snapshots, health_scores, calc>>

\* GithubCollector::new and collect_org_repos: an Err of either is the
\* response; else the snapshots of the repositories in `repos` are inserted
trigger_collect_repos(ok, repos, m) ==
    /\ fn_arg # None
    /\ unwrap(fn_arg).pc = "collect_org_repos"
    /\ IF ok
       THEN /\ github_snapshots' =
                   collect_repos_from(github_snapshots,
                                      unwrap(fn_arg).distro_id, repos, m, 1)
            /\ fn_arg' = Some([unwrap(fn_arg) EXCEPT
                                  !.pc = "collect_org_releases"])
            /\ fn_ret' = None
       ELSE /\ fn_ret' = Some([status |-> "err", step |-> "collect_org_repos"])
            /\ fn_arg' = None
            /\ UNCHANGED github_snapshots
    /\ UNCHANGED <<now, overflow_checks, distributions, community_snapshots,
                   release_snapshots, health_scores, calc>>

\* collect_org_releases with its error returned to the client
trigger_collect_releases_strict(ok, repos, r) ==
    /\ fn_arg # None
    /\ unwrap(fn_arg).pc = "collect_org_releases"
    /\ IF ok
       THEN /\ release_snapshots' =
                   collect_releases_from(release_snapshots,
                                         unwrap(fn_arg).distro_id, repos, r, 1)
            /\ fn_arg' = Some([unwrap(fn_arg) EXCEPT
                                  !.pc = "calculate_health_score"])
            /\ fn_ret' = None
       ELSE /\ fn_ret' = Some([status |-> "err", step |-> "collect_org_releases"])
            /\ fn_arg' = None
            /\ UNCHANGED release_snapshots
    /\ UNCHANGED <<now, overflow_checks, distributions, github_snapshots,
                   community_snapshots, health_scores, calc>>

\* collect_org_releases: its Err is logged and the handler goes on
trigger_collect_releases(ok, repos, r) ==
    /\ fn_arg # None
    /\ unwrap(fn_arg).pc = "collect_org_releases"
    /\ release_snapshots' =
          IF ok
          THEN collect_releases_from(release_snapshots,
                                     unwrap(fn_arg).distro_id, repos, r, 1)
          ELSE release_snapshots
    /\ fn_arg' = Some([unwrap(fn_arg) EXCEPT !.pc = "calculate_health_score"])
    /\ fn_ret' = None
    /\ UNCHANGED <<now, overflow_checks, distributions, github_snapshots,
                   community_snapshots, health_scores, calc>>

\* Analyzer::calculate_health_score(&state.db, distro.id), step by step
trigger_calculate ==
    /\ fn_arg # None
    /\ unwrap(fn_arg).pc = "calculate_health_score"
    /\ calc["p1"].result = "none"
    /\ \/ \E ok \in BOOLEAN : calc_github("p1", unwrap(fn_arg).distro_id, ok)
       \/ \E ok \in BOOLEAN : calc_community("p1", ok)
       \/ \E ok \in BOOLEAN :
             \E previous \in get_latest_health_score(health_scores,
                                                     calc["p1"].distro_id) :
                 calc_previous("p1", previous, ok)
       \/ \E ok \in BOOLEAN : calc_insert("p1", ok)

\* calculate_health_score has returned: its Err is the response, else the
\* request succeeds
trigger_respond ==
    /\ fn_arg # None
    /\ unwrap(fn_arg).pc = "calculate_health_score"
    /\ calc["p1"].pc = "idle"
    /\ calc["p1"].result # "none"
    /\ fn_ret' = Some([status |-> IF calc["p1"].result = "ok" THEN "ok"
                                  ELSE IF calc["p1"].result = "panic"
                                  THEN "panic" ELSE "err",
                       step |-> "calculate_health_score"])
    /\ fn_arg' = None
    /\ calc' = [calc EXCEPT !["p1"] = Idle]
    /\ UNCHANGED <<now, overflow_checks, distributions, github_snapshots,
                   community_snapshots, release_snapshots, health_scores>>

\* One step of a trigger_collection request; a collection inserts the snapshot
\* of any of the organization's repositories, up to MaxTriggered rows
trigger_collection ==
    \/ \E slug \in Slugs : trigger_start(slug)
    \/ \E ok \in BOOLEAN,
          repos \in {x \in SUBSET (1..Len(RepoNames)) :
                        snapshot_rows + Cardinality(x) <= MaxTriggered},
          m \in {g \in GithubMetrics : g.stars = 50} :
           trigger_collect_repos(ok, repos, m)
    \/ \E ok \in BOOLEAN,
          repos \in {x \in SUBSET (1..Len(RepoNames)) :
                        snapshot_rows + Cardinality(x) <= MaxTriggered},
          r \in {x \in ReleaseInputs : ~x.is_prerelease} :
           trigger_collect_releases(ok, repos, r)
    \/ trigger_calculate
    \/ trigger_respond

\* One step of caller p's invocation of calculate_health_score
calculate_health_score(p) ==
    \/ \E d \in DistroIds, ok \in BOOLEAN : calc_github(p, d, ok)
    \/ \E ok \in BOOLEAN : calc_community(p, ok)
    \/ \E ok \in BOOLEAN :
          \E previous \in get_latest_health_score(health_scores, calc[p].distro_id) :
              calc_previous(p, previous, ok)
    \/ \E ok \in BOOLEAN : calc_insert(p, ok)

Next ==
    \/ Tick
    \/ /\ snapshot_rows < MaxSnapshots
       /\ \/ \E k \in 1..Len(RepoNames), m \in GithubMetrics :
                insert_github_snapshot(1, RepoNames[k], m)
          \/ \E d \in DistroIds, k \in 1..Len(CommunitySources),
                m \in CommunityMetrics :
                insert_community_snapshot(d, CommunitySources[k], m)
          \/ \E k \in 1..Len(RepoNames), t \in 1..Len(TagNames),
                r \in ReleaseInputs :
                insert_release_snapshot(1, RepoNames[k], TagNames[t], r)
    \/ calculate_health_score("p1")

Spec == Init /\ [][Next]_vars

\* Two callers score concurrently while one repository is collected
NextConcurrent ==
    \/ Tick
    \/ /\ snapshot_rows < MaxConcurrent
       /\ \E m \in GithubMetrics : insert_github_snapshot(1, RepoNames[1], m)
    \/ \E p \in Procs : calculate_health_score(p)

SpecConcurrent == Init /\ [][NextConcurrent]_vars

\* The store alone: snapshots of both distributions are collected
NextStore ==
    \/ Tick
    \/ /\ snapshot_rows < MaxStore
       /\ \/ \E d \in DistroIds, k \in 1..Len(RepoNames) :
                insert_github_snapshot(d, RepoNames[k],
                    CHOOSE m \in GithubMetrics : m.last_commit_at = None)
          \/ \E d \in DistroIds, k \in 1..Len(CommunitySources) :
                insert_community_snapshot(d, CommunitySources[k],
                    CHOOSE m \in CommunityMetrics : m.posts_30d = None)
          \/ \E d \in DistroIds, k \in 1..Len(RepoNames), t \in 1..Len(TagNames) :
                insert_release_snapshot(d, RepoNames[k], TagNames[t],
                    CHOOSE r \in ReleaseInputs : r.published_at = None)

SpecStore == Init /\ [][NextStore]_vars

\* Rankings requested while snapshots are collected and scores calculated
NextRankings ==
    \/ Tick
    \/ /\ snapshot_rows < MaxRanked
       /\ \/ \E m \in {g \in GithubMetrics : g.stars = 25000} :
                 insert_github_snapshot(1, RepoNames[1], m)
          \/ \E d \in DistroIds,
                m \in {c \in CommunityMetrics : c.posts_30d # None} :
                 insert_community_snapshot(d, CommunitySources[2], m)
          \/ \E r \in {x \in ReleaseInputs : ~x.is_prerelease} :
                 insert_release_snapshot(1, RepoNames[1], TagNames[1], r)
    \/ calculate_health_score("p1")
    \/ get_rankings

SpecRankings == Init /\ [][NextRankings]_vars

\* The history of either entity requested while scores are calculated
NextHistory ==
    \/ Tick
    \/ calculate_health_score("p1")
    \/ \E slug \in Slugs, days \in HistoryDays, ok \in BOOLEAN :
           get_distro_history(slug, days, ok)

SpecHistory == Init /\ [][NextHistory]_vars

\* trigger_collection requests, one after another
NextTrigger ==
    \/ Tick
    \/ trigger_collection

SpecTrigger == Init /\ [][NextTrigger]_vars

\* Two callers, for any entity each, while the subreddit of either entity is
\* collected
NextEntities ==
    \/ Tick
    \/ /\ snapshot_rows < MaxEntities
       /\ \E d \in DistroIds, m \in {c \in CommunityMetrics : c.posts_30d # None} :
              insert_community_snapshot(d, CommunitySources[2], m)
    \/ \E p \in Procs : calculate_health_score(p)

SpecEntities == Init /\ [][NextEntities]_vars

\* determine_trend called on its own, on overall scores a tenth apart
TrendScores == {40 * Milli + k * (Milli \div 10) : k \in 0..MaxTrend}

InitTrend ==
    /\ InitStore
    /\ fn_arg \in [current : TrendScores,
                   previous : {None} \cup {Some([overall_score |-> v]) :
                                             v \in TrendScores}]
    /\ fn_ret = None

call_determine_trend ==
    /\ fn_ret = None
    /\ fn_ret' = Some(determine_trend(fn_arg.current, fn_arg.previous))
    /\ UNCHANGED <<fn_arg, now, overflow_checks, distributions, github_snapshots,
                   community_snapshots, release_snapshots, health_scores, calc>>

SpecTrend == InitTrend /\ [][call_determine_trend]_vars

\* The snapshot sets of 1..n rows drawn from `rows`
sets_of(rows, n) == UNION {[1..k -> rows] : k \in 1..n}

\* What a function called on its own answers: a value, or a panic
value(v) == Some([panic |-> FALSE, v |-> v])
panic == Some([panic |-> TRUE, v |-> 0])

\* calculate_development_score called on its own, on commit and contributor
\* counts at the ends of the ranges
DevelopmentRows ==
    [commits_30d : {0, 6, 10, 11, 50, 51, 200, 201, 500, 501, IntMax},
     contributors_30d : {0, 2, 3, 10, 11, 30, 31, 100, 101}]

InitDevelopment ==
    /\ InitStore
    /\ fn_arg \in [github : sets_of(DevelopmentRows, MaxSummed)]
    /\ fn_ret = None

call_calculate_development_score ==
    /\ fn_ret = None
    /\ fn_ret' =
          IF /\ overflow_checks
             /\ \/ sum(commits_30d_of(fn_arg.github)).overflow
                \/ sum(contributors_30d_of(fn_arg.github)).overflow
          THEN panic
          ELSE value(calculate_development_score(fn_arg.github))
    /\ UNCHANGED <<fn_arg, now, overflow_checks, distributions, github_snapshots,
                   community_snapshots, release_snapshots, health_scores, calc>>

SpecDevelopment ==
    InitDevelopment /\ [][call_calculate_development_score]_vars

\* calculate_community_score called on its own: no activity snapshot or one,
\* and community snapshots of sources with and without the "reddit:" prefix
PlatformRows == [stars : {50, 25000}, forks : {2}]

SourceNames == { <<"forum:", "arch">>, <<"lemmy:", "reddit:", "arch">>,
                 <<"reddit:", "archlinux">>, <<"reddit:", "r/", "archlinux">> }

CommunityRows ==
    [source : SourceNames,
     active_users_30d : {None, Some(900), Some(250000), Some(IntMax)},
     posts_30d : {None, Some(120)}]

InitCommunity ==
    /\ InitStore
    /\ fn_arg \in [github : {<<>>} \cup sets_of(PlatformRows, 1),
                   community : {<<>>} \cup sets_of(CommunityRows, MaxRepos)]
    /\ fn_ret = None

call_calculate_community_score ==
    /\ fn_ret = None
    /\ fn_ret' =
          IF /\ overflow_checks
             /\ \/ sum(stars_of(fn_arg.github)).overflow
                \/ sum(forks_of(fn_arg.github)).overflow
                \/ sum(active_users_30d_of(
                       SelectSeq(fn_arg.community, is_reddit))).overflow
                \/ sum(posts_30d_of(
                       SelectSeq(fn_arg.community, is_reddit))).overflow
          THEN panic
          ELSE value(calculate_community_score(fn_arg.github,
                                               fn_arg.community))
    /\ UNCHANGED <<fn_arg, now, overflow_checks, distributions, github_snapshots,
                   community_snapshots, release_snapshots, health_scores, calc>>

SpecCommunity == InitCommunity /\ [][call_calculate_community_score]_vars

\* calculate_maintenance_score called on its own, on issue and pull-request
\* counts whose totals cross a range's end, and last commits a second before
\* and at the day on which the recency range changes
MaintenanceRows ==
    [open_issues : {6, 11, IntMax},
     open_prs : {3, 6},
     last_commit_at : {None, Some(-(8 * DayLen) + 1), Some(-(8 * DayLen)),
                       Some(-(31 * DayLen) + 1), Some(-(31 * DayLen)),
                       Some(-(91 * DayLen) + 1), Some(-(91 * DayLen)),
                       Some(-(181 * DayLen))}]

InitMaintenance ==
    /\ InitStore
    /\ fn_arg \in [github : sets_of(MaintenanceRows, MaxSummed),
                   utc_now : 0..MaxNow]
    /\ fn_ret = None

call_calculate_maintenance_score ==
    /\ fn_ret = None
    /\ fn_ret' =
          IF /\ overflow_checks
             /\ \/ sum(open_issues_of(fn_arg.github)).overflow
                \/ sum(open_prs_of(fn_arg.github)).overflow
          THEN panic
          ELSE value(calculate_maintenance_score(fn_arg.github,
                                                 fn_arg.utc_now))
    /\ UNCHANGED <<fn_arg, now, overflow_checks, distributions, github_snapshots,
                   community_snapshots, release_snapshots, health_scores, calc>>

SpecMaintenance ==
    InitMaintenance /\ [][call_calculate_maintenance_score]_vars

\* The bucket matches of the three sub-score functions, each applied on its
\* own to two totals a <= b drawn from the ends of every range and of i64
BucketNames == {"commit", "contributor", "star", "fork", "subscriber", "post",
                "issue", "pr"}

BucketTotals ==
    {IntMin, -1, 0, 2, 3, 5, 6, 10, 11, 20, 21, 30, 31, 50, 51, 60, 61, 100,
     101, 200, 201, 500, 501, 1000, 1001, 2000, 2001, 5000, 5001, 15000,
     15001, 20000, 20001, 50000, 50001, 100000, 100001, 200000, 200001,
     IntMax}

bucket_score(name, n) ==
    CASE name = "commit" -> commit_score(n)
      [] name = "contributor" -> contributor_score(n)
      [] name = "star" -> star_score(n)
      [] name = "fork" -> fork_score(n)
      [] name = "subscriber" -> subscriber_score(n)
      [] name = "post" -> activity_score(n)
      [] name = "issue" -> issue_score(n)
      [] name = "pr" -> pr_score(n)

InitBuckets ==
    /\ InitStore
    /\ fn_arg \in {x \in [bucket : BucketNames, a : BucketTotals,
                          b : BucketTotals] : x.a <= x.b}
    /\ fn_ret = None

call_bucket ==
    /\ fn_ret = None
    /\ fn_ret' = Some([a |-> bucket_score(fn_arg.bucket, fn_arg.a),
                       b |-> bucket_score(fn_arg.bucket, fn_arg.b)])
    /\ UNCHANGED <<fn_arg, now, overflow_checks, distributions, github_snapshots,
                   community_snapshots, release_snapshots, health_scores, calc>>

SpecBuckets == InitBuckets /\ [][call_bucket]_vars

\* The aggregation of get_rankings called on its own: activity snapshots whose
\* stars reach the end of the i64 range, releases published around the day
\* the 30-day window starts, and community snapshots of four source names
AggregateGithub ==
    { [stars |-> 100, forks |-> 10, contributors_30d |-> 3, commits_30d |-> 20,
       open_issues |-> 7, open_prs |-> 2],
      [stars |-> 50, forks |-> 5, contributors_30d |-> 1, commits_30d |-> 4,
       open_issues |-> 1, open_prs |-> 0],
      [stars |-> IntMax - 99, forks |-> 0, contributors_30d |-> 0,
       commits_30d |-> 0, open_issues |-> 0, open_prs |-> 0],
      [stars |-> -1, forks |-> 0, contributors_30d |-> 0, commits_30d |-> 0,
       open_issues |-> 0, open_prs |-> 0] }

AggregateReleases ==
    [tag_name : {TagNames[k] : k \in 1..Len(TagNames)},
     published_at : {None, Some(-1), Some(-(30 * DayLen) + 1),
                     Some(-(30 * DayLen)), Some(-(31 * DayLen))},
     is_prerelease : BOOLEAN]

AggregateSources == { <<"forum:", "arch">>, <<"reddit:", "archlinux">>,
                      <<"reddit:", "r/", "archlinux">>,
                      <<"reddit:", "r/", "debian">> }

AggregateCommunity ==
    [source : AggregateSources,
     active_users_30d : {None, Some(900), Some(IntMax)},
     posts_30d : {None, Some(120)}]

InitAggregate ==
    /\ InitStore
    /\ fn_arg \in
          [github : {<<>>} \cup sets_of(AggregateGithub, MaxSummed),
           releases : {<<>>}, community : {<<>>}, utc_now : {0}]
          \cup [github : {<<>>},
                releases : sets_of(AggregateReleases, MaxRepos),
                community : {<<>>}, utc_now : 0..MaxNow]
          \cup [github : {<<>>}, releases : {<<>>},
                community : sets_of(AggregateCommunity, MaxRepos),
                utc_now : {0}]
    /\ fn_ret = None

\* RawMetrics::from_github_snapshots(..).with_releases(..).with_community(..)
aggregate(github, releases, community, utc_now) ==
    with_community(
        with_releases(from_github_snapshots(github), releases, utc_now),
        community)

call_aggregate ==
    /\ fn_ret = None
    /\ fn_ret' =
          IF overflow_checks /\ metrics_overflow(fn_arg.github, fn_arg.community)
          THEN panic
          ELSE value(aggregate(fn_arg.github, fn_arg.releases,
                               fn_arg.community, fn_arg.utc_now))
    /\ UNCHANGED <<fn_arg, now, overflow_checks, distributions, github_snapshots,
                   community_snapshots, release_snapshots, health_scores, calc>>

SpecAggregate == InitAggregate /\ [][call_aggregate]_vars

\* The scoring of calculate_health_score called on its own: activity snapshots
\* at the lowest and the highest range of every metric and at the ends of the
\* i64 range, and community snapshots likewise
ScoreGithub ==
    GithubMetrics
    \cup { [stars |-> 0, forks |-> 0, open_issues |-> 1001, open_prs |-> 101,
            commits_30d |-> 0, commits_365d |-> 0, contributors_30d |-> 0,
            last_commit_at |-> Some(-(181 * DayLen))],
           [stars |-> 20001, forks |-> 2001, open_issues |-> 0, open_prs |-> 0,
            commits_30d |-> 501, commits_365d |-> 501,
            contributors_30d |-> 101, last_commit_at |-> Some(0)],
           [stars |-> -1, forks |-> -1, open_issues |-> -1, open_prs |-> -1,
            commits_30d |-> -1, commits_365d |-> -1, contributors_30d |-> -1,
            last_commit_at |-> Some(MaxNow + DayLen)] }

ScoreCommunity ==
    [source : {CommunitySources[k] : k \in 1..Len(CommunitySources)},
     active_users_30d : {None, Some(0), Some(IntMax)},
     posts_30d : {None, Some(101)}]

InitScore ==
    /\ InitStore
    /\ fn_arg \in [github : {<<>>} \cup sets_of(ScoreGithub, MaxRepos),
                   community : {<<>>} \cup sets_of(ScoreCommunity, MaxRepos),
                   utc_now : 0..MaxNow]
    /\ fn_ret = None

\* The scores calculate_health_score computes from what it read
call_new_health_score ==
    /\ fn_ret = None
    /\ fn_ret' =
          IF overflow_checks /\ sum_overflows(fn_arg.github, fn_arg.community)
          THEN panic
          ELSE value(new_health_score(1, fn_arg.github, fn_arg.community,
                                      None, fn_arg.utc_now))
    /\ UNCHANGED <<fn_arg, now, overflow_checks, distributions, github_snapshots,
                   community_snapshots, release_snapshots, health_scores, calc>>

SpecScore == InitScore /\ [][call_new_health_score]_vars

\* ---------------------------------------------------------------- properties

in_range(x) == x >= 0 /\ x <= 100 * Milli

has_no_snapshots(distro_id) ==
    /\ \A i \in 1..Len(github_snapshots) :
           github_snapshots[i].distro_id # distro_id
    /\ \A i \in 1..Len(community_snapshots) :
           community_snapshots[i].distro_id # distro_id

is_prefix(s, t) == Len(s) <= Len(t) /\ SubSeq(t, 1, Len(s)) = s

ReadOps == {"get_latest_github_snapshots", "get_latest_community_snapshots",
            "get_latest_health_score"}

\* C1: every stored score record has its development, community and
\* maintenance sub-scores and its overall score within [0, 100], whatever
\* integer metrics (negative and very large ones too) the snapshots carry.
C1_ScoresInRange ==
    \A i \in 1..Len(health_scores) :
        /\ in_range(health_scores[i].development_score)
        /\ in_range(health_scores[i].community_score)
        /\ in_range(health_scores[i].maintenance_score)
        /\ in_range(health_scores[i].overall_score)

\* C1 witness: a record computed from snapshots whose stars are the largest
\* integer and whose contributors are negative, and a record above 90 overall
C1_Witness ==
    /\ \E i \in 1..Len(github_snapshots) :
           /\ github_snapshots[i].stars = IntMax
           /\ github_snapshots[i].contributors_30d < 0
    /\ \E i \in 1..Len(health_scores) :
           /\ health_scores[i].development_score = 95 * Milli
           /\ health_scores[i].overall_score > 50 * Milli

\* C4: an entity with no activity snapshot and no community snapshot is
\* scored 50 in development, community, maintenance and overall, and its
\* calculation ends in no failure of its own (only a store error can end it).
C4_NoSnapshotsNeutral ==
    /\ \A i \in 1..Len(health_scores) :
           has_no_snapshots(health_scores[i].distro_id) =>
               /\ health_scores[i].development_score = 50 * Milli
               /\ health_scores[i].community_score = 50 * Milli
               /\ health_scores[i].maintenance_score = 50 * Milli
               /\ health_scores[i].overall_score = 50 * Milli
    /\ \A p \in Procs :
           (/\ calc[p].pc = "idle"
            /\ calc[p].result # "none"
            /\ calc[p].failed_op = "none"
            /\ has_no_snapshots(calc[p].distro_id)) => calc[p].result = "ok"

\* C4 witness: a record of an entity without snapshots, while another entity
\* has some
C4_Witness ==
    /\ has_no_snapshots(2)
    /\ ~has_no_snapshots(1)
    /\ \E i \in 1..Len(health_scores) : health_scores[i].distro_id = 2
    /\ calc["p1"].result = "ok"
    /\ calc["p1"].distro_id = 2

\* C5: when one of the three store reads of a calculation (latest activity
\* snapshots, latest community snapshots, latest prior score) fails, the
\* invocation returns the error at that step and appends no score record.
C5_ReadErrorAborts ==
    [][\A p \in Procs :
          (calc'[p] # calc[p] /\ calc'[p].failed_op \in ReadOps) =>
              /\ calc'[p].pc = "idle"
              /\ calc'[p].result = "err_database"
              /\ calc'[p].score = None
              /\ health_scores' = health_scores]_vars

\* C5 witness: the read of the prior score has failed after a record was stored
C5_Witness ==
    /\ calc["p1"].failed_op = "get_latest_health_score"
    /\ calc["p1"].result = "err_database"
    /\ Len(health_scores) = 1
    /\ Len(github_snapshots) > 0

\* C6: when every store operation succeeds, calculate_health_score succeeds
\* for every shape of input, and no invocation returns InsufficientData.
C6_SucceedsWhenStoreSucceeds ==
    \A p \in Procs :
        /\ calc[p].result \in {"none", "ok", "err_database", "panic"}
        /\ (calc[p].pc = "idle" /\ calc[p].result # "none"
            /\ calc[p].failed_op = "none") => calc[p].result = "ok"

\* C7: a successful invocation for an entity appends exactly one score record,
\* for that entity, and changes no snapshot, no entity and no earlier score
\* record; a step of an invocation that does not return success appends none.
C7_OneRecordPerCall ==
    [][\A p \in Procs :
          calc'[p] # calc[p] =>
              /\ github_snapshots' = github_snapshots
              /\ community_snapshots' = community_snapshots
              /\ release_snapshots' = release_snapshots
              /\ distributions' = distributions
              /\ IF calc'[p].result = "ok"
                 THEN /\ Len(health_scores') = Len(health_scores) + 1
                      /\ is_prefix(health_scores, health_scores')
                      /\ health_scores'[Len(health_scores')].distro_id
                             = calc[p].distro_id
                 ELSE health_scores' = health_scores]_vars

\* C7 witness: a second successful invocation for the same entity, with
\* snapshots of it stored
C7_Witness ==
    /\ calc["p1"].result = "ok"
    /\ Len(health_scores) = 2
    /\ health_scores[1].distro_id = health_scores[2].distro_id
    /\ ~has_no_snapshots(health_scores[2].distro_id)

\* C8: the three snapshot tables and the score table are append-only: every
\* step leaves each table's rows in place and unchanged, adding rows at most.
C8_AppendOnly ==
    [][/\ is_prefix(github_snapshots, github_snapshots')
       /\ is_prefix(community_snapshots, community_snapshots')
       /\ is_prefix(release_snapshots, release_snapshots')
       /\ is_prefix(health_scores, health_scores')]_vars

\* C8 witness: a second snapshot of a repository stored after its first, and
\* a score record stored
C8_Witness ==
    /\ Len(github_snapshots) = 2
    /\ github_snapshots[1].repo_name = github_snapshots[2].repo_name
    /\ github_snapshots[1].collected_at < github_snapshots[2].collected_at
    /\ Len(health_scores) > 0

\* C2: every score record's trend is the threshold classification of its
\* overall score against the overall score of the record of the same entity
\* stored immediately before it ("stable" when there is none), also when
\* calculations for the entity overlap.
C2_TrendAgainstPreceding ==
    \A i \in 1..Len(health_scores) :
        LET earlier == {j \in 1..(i - 1) :
                           health_scores[j].distro_id = health_scores[i].distro_id}
            preceding == CHOOSE j \in earlier : \A k \in earlier : k <= j
        IN  health_scores[i].trend =
                IF earlier = {} THEN "stable"
                ELSE determine_trend(health_scores[i].overall_score,
                                     Some(health_scores[preceding]))

\* C3: determine_trend answers "up" exactly when current exceeds the previous
\* overall score by more than 2.0, "down" exactly when it is below it by more
\* than 2.0, and "stable" otherwise: at a difference of exactly 2.0 or -2.0,
\* and when there is no previous record; 45.0 against 42.2 is "up".
C3_TrendThresholds ==
    is_some(fn_ret) =>
        LET trend == unwrap(fn_ret)
            current == fn_arg.current
        IN  IF fn_arg.previous = None THEN trend = "stable"
            ELSE LET diff == current - unwrap(fn_arg.previous).overall_score
                 IN  /\ trend \in {"up", "down", "stable"}
                     /\ trend = "up" <=> diff > 2 * Milli
                     /\ trend = "down" <=> diff < -(2 * Milli)
                     /\ (diff = 2 * Milli \/ diff = -(2 * Milli))
                            => trend = "stable"
                     /\ (current = 45 * Milli /\ diff = 2800) => trend = "up"

\* C3 witness: determine_trend has answered "stable" for a current score
\* exactly 2.0 above the previous one
C3_Witness ==
    /\ is_some(fn_ret)
    /\ is_some(fn_arg.previous)
    /\ fn_arg.current - unwrap(fn_arg.previous).overall_score = 2 * Milli
    /\ unwrap(fn_ret) = "stable"

\* C9: for each entity each latest-snapshot query returns exactly one row per
\* key that has a snapshot (repository; source; repository and tag), and that
\* row carries the greatest collection time stored for the key.
C9_OneLatestRowPerKey ==
    \A d \in DistroIds :
        LET g == get_latest_github_snapshots(github_snapshots, d)
            c == get_latest_community_snapshots(community_snapshots, d)
            r == latest_release_rows(release_snapshots, d)
        IN  /\ \A k \in 1..Len(RepoNames) :
                  has_github(github_snapshots, d, RepoNames[k]) =>
                      /\ Cardinality({i \in 1..Len(g) :
                             g[i].repo_name = RepoNames[k]}) = 1
                      /\ \A i \in 1..Len(g) :
                             g[i].repo_name = RepoNames[k] =>
                                 g[i].collected_at = max_collected_github(
                                     github_snapshots, d, RepoNames[k])
            /\ \A k \in 1..Len(CommunitySources) :
                  has_community(community_snapshots, d, CommunitySources[k]) =>
                      /\ Cardinality({i \in 1..Len(c) :
                             c[i].source = CommunitySources[k]}) = 1
                      /\ \A i \in 1..Len(c) :
                             c[i].source = CommunitySources[k] =>
                                 c[i].collected_at = max_collected_community(
                                     community_snapshots, d, CommunitySources[k])
            /\ \A k \in 1..Len(RepoNames), t \in 1..Len(TagNames) :
                  has_release(release_snapshots, d, RepoNames[k], TagNames[t]) =>
                      /\ Cardinality({i \in 1..Len(r) :
                             /\ r[i].repo_name = RepoNames[k]
                             /\ r[i].tag_name = TagNames[t]}) = 1
                      /\ \A i \in 1..Len(r) :
                             (/\ r[i].repo_name = RepoNames[k]
                              /\ r[i].tag_name = TagNames[t]) =>
                                 r[i].collected_at = max_collected_release(
                                     release_snapshots, d, RepoNames[k],
                                     TagNames[t])

\* The sub-scores and the overall score a calculation for the entity yields
\* from the snapshots stored now
scores_now(distro_id) ==
    LET score == new_health_score(distro_id,
                     get_latest_github_snapshots(github_snapshots, distro_id),
                     get_latest_community_snapshots(community_snapshots,
                                                    distro_id),
                     None, now)
    IN  <<score.development_score, score.community_score,
          score.maintenance_score, score.overall_score>>

same_github_metrics(a, b) ==
    /\ a.distro_id = b.distro_id /\ a.repo_name = b.repo_name
    /\ a.stars = b.stars /\ a.forks = b.forks
    /\ a.open_issues = b.open_issues /\ a.open_prs = b.open_prs
    /\ a.commits_30d = b.commits_30d /\ a.commits_365d = b.commits_365d
    /\ a.contributors_30d = b.contributors_30d
    /\ a.last_commit_at = b.last_commit_at

same_community_metrics(a, b) ==
    /\ a.distro_id = b.distro_id /\ a.source = b.source
    /\ a.active_users_30d = b.active_users_30d /\ a.posts_30d = b.posts_30d

\* C10: when collection appends, for an entity and a key, a snapshot with the
\* metric values of the key's current latest snapshot, a calculation for the
\* entity afterwards yields the same three sub-scores and overall score as one
\* before it, at the same wall-clock time.
C10_DuplicateRunSameScores ==
    [][\A d \in DistroIds :
          LET g == get_latest_github_snapshots(github_snapshots, d)
              c == get_latest_community_snapshots(community_snapshots, d)
          IN  (\/ /\ Len(github_snapshots') = Len(github_snapshots) + 1
                  /\ \E i \in 1..Len(g) : same_github_metrics(
                         g[i], github_snapshots'[Len(github_snapshots')])
               \/ /\ Len(community_snapshots') = Len(community_snapshots) + 1
                  /\ \E i \in 1..Len(c) : same_community_metrics(
                         c[i], community_snapshots'[Len(community_snapshots')]))
              => scores_now(d)' = scores_now(d)]_vars

\* C11: two invocations given the same latest activity and community snapshot
\* sets and the same previous score record produce the same sub-scores, overall
\* score and trend, whatever the wall-clock time at which each runs.
C11_SameInputsSameScore ==
    \A p \in Procs :
        calc[p].pc = "get_latest_health_score" =>
            \A previous \in get_latest_health_score(health_scores,
                                                    calc[p].distro_id),
               t1 \in 0..MaxNow, t2 \in 0..MaxNow :
                new_health_score(calc[p].distro_id, calc[p].github,
                                 calc[p].community, previous, t1)
                    = new_health_score(calc[p].distro_id, calc[p].github,
                                       calc[p].community, previous, t2)

clamp(x) == IF x < 0 THEN 0 ELSE IF x > 100 * Milli THEN 100 * Milli ELSE x

\* C12: the overall score of every stored score record equals
\* 0.4 x development + 0.3 x community + 0.3 x maintenance of the sub-scores
\* stored in the same record, clamped to [0, 100].
C12_OverallIsWeightedSum ==
    \A i \in 1..Len(health_scores) :
        LET weighted == health_scores[i].development_score * 4
                        + health_scores[i].community_score * 3
                        + health_scores[i].maintenance_score * 3
        IN  /\ weighted % 10 = 0
            /\ health_scores[i].overall_score = clamp(weighted \div 10)

\* C12 witness: a record whose three sub-scores differ from one another
C12_Witness ==
    \E i \in 1..Len(health_scores) :
        /\ health_scores[i].development_score # health_scores[i].community_score
        /\ health_scores[i].community_score # health_scores[i].maintenance_score
        /\ health_scores[i].development_score # health_scores[i].maintenance_score

\* The sum of a sequence of integers, without a width
RECURSIVE total_from(_, _)
total_from(xs, i) == IF i > Len(xs) THEN 0 ELSE xs[i] + total_from(xs, i + 1)

total(xs) == total_from(xs, 1)

commit_bucket(n) ==
    IF n <= 10 THEN 20 ELSE IF n <= 50 THEN 40 ELSE IF n <= 200 THEN 60
    ELSE IF n <= 500 THEN 80 ELSE 95

contributor_bucket(n) ==
    IF n <= 2 THEN 20 ELSE IF n <= 10 THEN 40 ELSE IF n <= 30 THEN 60
    ELSE IF n <= 100 THEN 80 ELSE 95

\* C13: for a non-empty activity snapshot set the development score is
\* 0.6 x commit-bucket + 0.4 x contributor-bucket of the 30-day commits and
\* contributors summed over all sub-repositories (buckets [0,10]->20,
\* [11,50]->40, [51,200]->60, [201,500]->80, >=501->95 and [0,2]->20,
\* [3,10]->40, [11,30]->60, [31,100]->80, >=101->95), whenever it is computed;
\* the sums are those of the counts, whatever their size.
C13_DevelopmentFormula ==
    (is_some(fn_ret) /\ ~unwrap(fn_ret).panic) =>
        LET commits == total([i \in 1..Len(fn_arg.github) |->
                                 fn_arg.github[i].commits_30d])
            contributors == total([i \in 1..Len(fn_arg.github) |->
                                      fn_arg.github[i].contributors_30d])
        IN  unwrap(fn_ret).v * 10 =
                (6 * commit_bucket(commits)
                 + 4 * contributor_bucket(contributors)) * Milli

has_social_prefix(c) == Len(c.source) >= 1 /\ Head(c.source) = "reddit:"

\* C14: the community score blends two components: the social one is present
\* exactly when some community snapshot's source name starts with "reddit:";
\* then the score is 0.4 x platform + 0.6 x social, otherwise the platform
\* component alone; platform is 50.0 without activity snapshots; community
\* snapshots without the prefix never influence the score.
C14_CommunityBlend ==
    (is_some(fn_ret) /\ ~unwrap(fn_ret).panic) =>
        LET social_rows == SelectSeq(fn_arg.community, has_social_prefix)
            platform == github_component(fn_arg.github)
            social == calculate_reddit_score(social_rows)
        IN  /\ fn_arg.github = <<>> => platform = 50 * Milli
            /\ unwrap(fn_ret).v * 10 =
                   IF social_rows # <<>> THEN 4 * platform + 6 * social
                   ELSE platform * 10
            /\ unwrap(fn_ret).v =
                   calculate_community_score(fn_arg.github, social_rows)

\* C14 witness: no activity snapshot, a forum snapshot with subscribers and a
\* "reddit:" snapshot without any: scored 0.4 x 50 + 0.6 x 20 = 32
C14_Witness ==
    /\ is_some(fn_ret)
    /\ fn_arg.github = <<>>
    /\ Len(fn_arg.community) = 2
    /\ fn_arg.community[1].source = <<"forum:", "arch">>
    /\ fn_arg.community[1].active_users_30d = Some(250000)
    /\ fn_arg.community[2].source = <<"reddit:", "archlinux">>
    /\ fn_arg.community[2].active_users_30d = None
    /\ fn_arg.community[2].posts_30d = None
    /\ unwrap(fn_ret) = [panic |-> FALSE, v |-> 32 * Milli]

issue_bucket(n) ==
    IF n <= 10 THEN 90 ELSE IF n <= 50 THEN 80 ELSE IF n <= 200 THEN 70
    ELSE IF n <= 500 THEN 50 ELSE IF n <= 1000 THEN 30 ELSE 20

pr_bucket(n) ==
    IF n <= 5 THEN 90 ELSE IF n <= 20 THEN 80 ELSE IF n <= 50 THEN 70
    ELSE IF n <= 100 THEN 50 ELSE 30

recency_bucket(days) ==
    IF days <= 7 THEN 100 ELSE IF days <= 30 THEN 80 ELSE IF days <= 90 THEN 60
    ELSE IF days <= 180 THEN 40 ELSE 20

\* C15: for a non-empty activity snapshot set the maintenance score is
\* 0.3 x issue-bucket(total open issues) + 0.3 x pr-bucket(total open PRs)
\* + 0.4 x recency, where recency is the bucket ([0,7]->100, [8,30]->80,
\* [31,90]->60, [91,180]->40, >=181->20) of the whole days elapsed since the
\* greatest last-commit timestamp any sub-repository reports, and 50.0 when
\* none reports one; whenever the score is computed, the totals being those
\* of the counts, whatever their size.
C15_MaintenanceFormula ==
    (is_some(fn_ret) /\ ~unwrap(fn_ret).panic) =>
        LET github == fn_arg.github
            issues == total([i \in 1..Len(github) |-> github[i].open_issues])
            prs == total([i \in 1..Len(github) |-> github[i].open_prs])
            reported == {unwrap(github[i].last_commit_at) :
                            i \in {j \in 1..Len(github) :
                                      github[j].last_commit_at # None}}
            latest == CHOOSE t \in reported : \A u \in reported : u <= t
            recency == IF reported = {} THEN 50
                       ELSE recency_bucket((fn_arg.utc_now - latest) \div DayLen)
        IN  unwrap(fn_ret).v * 10 =
                (3 * issue_bucket(issues) + 3 * pr_bucket(prs) + 4 * recency)
                * Milli

\* C16: every count bucket is monotone in its integer input: for totals
\* a <= b the commit, contributor, star, fork, subscriber and post buckets
\* give bucket(a) <= bucket(b), the inverted issue and pull-request buckets
\* give bucket(a) >= bucket(b); commit totals 10 and 11 map to 20 and 40.
C16_BucketsMonotone ==
    is_some(fn_ret) =>
        /\ fn_arg.bucket \in {"issue", "pr"} => unwrap(fn_ret).a >= unwrap(fn_ret).b
        /\ fn_arg.bucket \notin {"issue", "pr"} =>
               unwrap(fn_ret).a <= unwrap(fn_ret).b
        /\ (fn_arg.bucket = "commit" /\ fn_arg.a = 10 /\ fn_arg.b = 11) =>
               unwrap(fn_ret) = [a |-> 20 * Milli, b |-> 40 * Milli]

\* C17: when two calculations for an entity overlap (both read the previous
\* record before either appends), both succeed and both records are stored,
\* neither replacing the other, and the record calculated later is the one
\* get_latest_health_score returns.  The caller p below read "no previous
\* record" and finds a record of the entity in the table when it appends.
C17_OverlapBothStored ==
    [][\A p \in Procs :
          (/\ calc[p].pc = "insert_health_score"
           /\ calc[p].previous = None
           /\ \E i \in 1..Len(health_scores) :
                  health_scores[i].distro_id = calc[p].distro_id
           /\ calc'[p].pc = "idle"
           /\ calc'[p].failed_op = "none") =>
              /\ calc'[p].result = "ok"
              /\ Len(health_scores') = Len(health_scores) + 1
              /\ is_prefix(health_scores, health_scores')
              /\ health_scores'[Len(health_scores')].distro_id
                     = calc[p].distro_id
              /\ get_latest_health_score(health_scores', calc[p].distro_id)
                     = {Some(health_scores'[Len(health_scores')])}]_vars

\* The rows of a table that belong to one entity
only(table, distro_id) == SelectSeq(table, LAMBDA r : r.distro_id = distro_id)

rankings_listed ==
    /\ fn_arg # None
    /\ fn_ret' # None
    /\ unwrap(fn_ret').status = "ok"

\* C19: in the rankings list the scored entities come first, in descending
\* order of overall score, with ranks 1, 2, ... in that order, and the scores
\* shown for an entity are those of its latest score record (of the records
\* read, the one stored last for the entity).
C19_RankedByLatestScore ==
    [][rankings_listed =>
          LET list == unwrap(fn_ret').rankings
              scores == unwrap(fn_arg).scores
              n == Len(scores)
          IN  /\ Len(list) >= n
              /\ \A r \in 1..n :
                    /\ list[r].rank = r
                    /\ \E k \in 1..n :
                          /\ \E x \in 1..Len(unwrap(fn_arg).distros) :
                                /\ unwrap(fn_arg).distros[x].id
                                       = scores[k].distro_id
                                /\ unwrap(fn_arg).distros[x].slug = list[r].slug
                          /\ \A j \in 1..n :
                                scores[j].distro_id = scores[k].distro_id
                                    => scores[j].id <= scores[k].id
                          /\ list[r].overall_score = scores[k].overall_score
                          /\ list[r].development_score
                                = scores[k].development_score
                          /\ list[r].community_score = scores[k].community_score
                          /\ list[r].maintenance_score
                                = scores[k].maintenance_score
                          /\ list[r].trend = scores[k].trend
              /\ \A r \in 1..(n - 1) :
                    list[r].overall_score >= list[r + 1].overall_score]_vars

\* C20: in the rankings list every entity without a score record comes after
\* all scored entities, in the order of the entity list, with overall and all
\* sub-scores 0.0, trend "unknown" and zero-valued metrics; "unknown" is never
\* the trend of an entity that has a score record.
C20_UnscoredLast ==
    [][/\ (fn_arg = None /\ fn_arg' # None) =>
             \A d \in DistroIds :
                 (\E k \in 1..Len(unwrap(fn_arg').scores) :
                      unwrap(fn_arg').scores[k].distro_id = d)
                 <=> (\E i \in 1..Len(health_scores) :
                          health_scores[i].distro_id = d)
       /\ rankings_listed =>
             LET list == unwrap(fn_ret').rankings
                 scores == unwrap(fn_arg).scores
                 distros == unwrap(fn_arg).distros
                 n == Len(scores)
                 is_scored(d) == \E k \in 1..n : scores[k].distro_id = d.id
                 unscored == SelectSeq(distros, LAMBDA d : ~is_scored(d))
             IN  /\ Len(list) = n + Len(unscored)
                 /\ \A u \in 1..Len(unscored) :
                       list[n + u] =
                           [slug |-> unscored[u].slug, name |-> unscored[u].name,
                            overall_score |-> 0, development_score |-> 0,
                            community_score |-> 0, maintenance_score |-> 0,
                            trend |-> "unknown", rank |-> n + u,
                            metrics |-> DefaultMetrics,
                            github_org |-> unscored[u].github_org,
                            subreddit |-> unscored[u].subreddit]
                 /\ \A r \in 1..n : list[r].trend # "unknown"]_vars

\* C20 witness: a list with the one scored entity first and the unscored one,
\* earlier in the entity list, after it
C20_Witness ==
    /\ fn_ret # None
    /\ unwrap(fn_ret).status = "ok"
    /\ Len(unwrap(fn_ret).rankings) = 2
    /\ unwrap(fn_ret).rankings[1].slug = "debian"
    /\ unwrap(fn_ret).rankings[1].trend = "stable"
    /\ unwrap(fn_ret).rankings[2].slug = "arch"
    /\ unwrap(fn_ret).rankings[2].trend = "unknown"
    /\ Len(github_snapshots) = 1

\* A get_distro_history request responds with a history
history_listed ==
    /\ <<fn_arg, fn_ret>>' # <<fn_arg, fn_ret>>
    /\ fn_ret' # None
    /\ "history" \in DOMAIN unwrap(fn_ret')
    /\ unwrap(fn_ret').status = "ok"

\* C21: a history query for entity X with window N returns exactly the score
\* records of X calculated within the N days (of DayLen seconds) that end at
\* the time of the query, each once, no record of another entity, in
\* ascending order of calculation time.
C21_HistoryWindow ==
    [][history_listed =>
          LET history == unwrap(fn_ret').history
              q == unwrap(fn_arg')
              x == unwrap(get_distribution_by_slug(distributions, q.slug)).id
              within(h) == /\ h.distro_id = x
                           /\ h.calculated_at >= now - q.days * DayLen
                           /\ h.calculated_at <= now
          IN  /\ \A k \in 1..Len(history) : within(history[k])
              /\ \A i \in 1..Len(health_scores) :
                    within(health_scores[i]) =>
                        Cardinality({k \in 1..Len(history) :
                                        history[k] = health_scores[i]}) = 1
              /\ \A k \in 1..(Len(history) - 1) :
                    history[k].calculated_at
                        <= history[k + 1].calculated_at]_vars

\* The sequences with the elements of xs in any order
permutations(xs) ==
    {[k \in 1..Len(xs) |-> xs[f[k]]] :
        f \in {g \in [1..Len(xs) -> 1..Len(xs)] :
                  \A a, b \in 1..Len(xs) : a # b => g[a] # g[b]}}

\* What the aggregation answers for snapshot lists given in another order
aggregated(github, community) ==
    IF overflow_checks /\ metrics_overflow(github, community) THEN panic
    ELSE value(aggregate(github, fn_arg.releases, community, fn_arg.utc_now))

\* C22: aggregation is order-independent: for every permutation of the
\* activity snapshot list and of the community snapshot list the aggregation
\* gives the same totals (repos tracked, stars, forks, contributors, 30-day
\* commits, open issues, open PRs, subscribers, posts) as for the list given.
C22_OrderIndependent ==
    (fn_ret # None /\ "github" \in DOMAIN fn_arg
                   /\ "releases" \in DOMAIN fn_arg) =>
        \A github \in permutations(fn_arg.github),
           community \in permutations(fn_arg.community) :
            LET a == unwrap(aggregated(github, community))
                b == unwrap(fn_ret)
            IN  /\ a.panic = b.panic
                /\ ~a.panic =>
                      /\ a.v.repos_tracked = b.v.repos_tracked
                      /\ a.v.total_stars = b.v.total_stars
                      /\ a.v.total_forks = b.v.total_forks
                      /\ a.v.total_contributors = b.v.total_contributors
                      /\ a.v.commits_30d = b.v.commits_30d
                      /\ a.v.open_issues = b.v.open_issues
                      /\ a.v.open_prs = b.v.open_prs
                      /\ a.v.reddit_subscribers = b.v.reddit_subscribers
                      /\ a.v.reddit_posts_30d = b.v.reddit_posts_30d

\* C23: aggregating empty activity, release and community inputs never fails
\* and gives every total and count 0 and every optional field (latest release
\* tag, days since release, channel name) absent.
C23_EmptyInputsZero ==
    (fn_ret # None /\ "releases" \in DOMAIN fn_arg
       /\ fn_arg.github = <<>> /\ fn_arg.releases = <<>>
       /\ fn_arg.community = <<>>) =>
        /\ ~unwrap(fn_ret).panic
        /\ unwrap(fn_ret).v =
              [repos_tracked |-> 0, total_stars |-> 0, total_forks |-> 0,
               total_contributors |-> 0, commits_30d |-> 0, open_issues |-> 0,
               open_prs |-> 0, total_releases |-> 0, releases_30d |-> 0,
               latest_release |-> None, days_since_release |-> None,
               reddit_subscribers |-> 0, reddit_posts_30d |-> 0,
               subreddit |-> None]

\* C23 witness: the aggregation of three empty inputs has answered
C23_Witness ==
    /\ fn_ret # None
    /\ "releases" \in DOMAIN fn_arg
    /\ fn_arg.github = <<>>
    /\ fn_arg.releases = <<>>
    /\ fn_arg.community = <<>>

\* The release snapshots that are not prereleases
stable_releases(releases) == SelectSeq(releases, LAMBDA r : ~r.is_prerelease)

\* C24: with_releases sets total_releases to the number of release snapshots
\* given, releases_30d to the number of non-prerelease snapshots published
\* after the instant 30 days before the aggregation time, and latest_release
\* and days_since_release to the tag and the whole days since publication of
\* a non-prerelease snapshot with the greatest publish timestamp; a
\* prerelease is never counted in releases_30d and never the latest release.
C24_ReleaseMetrics ==
    (fn_ret # None /\ "releases" \in DOMAIN fn_arg /\ ~unwrap(fn_ret).panic) =>
        LET m == unwrap(fn_ret).v
            stable == stable_releases(fn_arg.releases)
            dated == {i \in 1..Len(stable) : stable[i].published_at # None}
            greatest == {i \in dated :
                            \A j \in dated :
                                unwrap(stable[j].published_at)
                                    <= unwrap(stable[i].published_at)}
        IN  /\ m.total_releases = Len(fn_arg.releases)
            /\ m.releases_30d =
                  Cardinality({i \in dated :
                                  unwrap(stable[i].published_at)
                                      > fn_arg.utc_now - 30 * DayLen})
            /\ dated # {} =>
                  \E i \in greatest :
                      /\ m.latest_release = Some(stable[i].tag_name)
                      /\ m.days_since_release =
                            Some((fn_arg.utc_now
                                  - unwrap(stable[i].published_at)) \div DayLen)
            /\ m.latest_release # None =>
                  \E i \in 1..Len(stable) :
                      m.latest_release = Some(stable[i].tag_name)
            /\ stable = <<>> =>
                  m.latest_release = None /\ m.days_since_release = None

\* C24 witness: a prerelease published yesterday and a release published 31
\* days ago: two releases, none in the last 30 days, the latest 31 days old
C24_Witness ==
    /\ fn_ret # None
    /\ "releases" \in DOMAIN fn_arg
    /\ fn_arg.utc_now = 0
    /\ fn_arg.releases =
          << [tag_name |-> TagNames[2], published_at |-> Some(-1),
              is_prerelease |-> TRUE],
             [tag_name |-> TagNames[1], published_at |-> Some(-(31 * DayLen)),
              is_prerelease |-> FALSE] >>
    /\ unwrap(fn_ret).v.total_releases = 2
    /\ unwrap(fn_ret).v.releases_30d = 0
    /\ unwrap(fn_ret).v.latest_release = Some(TagNames[1])
    /\ unwrap(fn_ret).v.days_since_release = Some(31)

\* The name a source name with the recognized prefix carries: what follows
\* "reddit:r/", and none when the source name has no such part
channel_name(source) ==
    IF Len(source) >= 2 /\ source[2] = "r/"
    THEN Some(SubSeq(source, 3, Len(source))) ELSE None

trigger_pc == IF fn_arg = None THEN "none" ELSE unwrap(fn_arg).pc

\* The entity of the request has a source organization configured
trigger_has_org ==
    \E i \in 1..Len(distributions) :
        /\ distributions[i].id = unwrap(fn_arg).distro_id
        /\ distributions[i].github_org # None

\* C26: in trigger_collection the steps are ordered collect repositories,
\* collect releases, calculate score.  When repository collection fails the
\* handler returns an error and no score record is appended; when only
\* release collection fails the score is still calculated and the request
\* succeeds; for an entity without a source organization no collection runs
\* and exactly one score record is still appended.
C26_TriggerSteps ==
    [][/\ \* the order of the steps
          /\ github_snapshots' # github_snapshots
                => trigger_pc = "collect_org_repos"
                   /\ trigger_pc' = "collect_org_releases"
          /\ release_snapshots' # release_snapshots
                => trigger_pc = "collect_org_releases"
                   /\ trigger_pc' = "calculate_health_score"
          /\ calc' # calc => trigger_pc = "calculate_health_score"
          /\ trigger_pc = "collect_org_releases"
                => trigger_pc' \in {"collect_org_releases",
                                    "calculate_health_score"}
       /\ \* repository collection fails
          (trigger_pc = "collect_org_repos" /\ trigger_pc' = "none") =>
              /\ unwrap(fn_ret').status = "err"
              /\ health_scores' = health_scores
              /\ calc["p1"] = Idle /\ calc' = calc
       /\ \* no record before the score is calculated
          trigger_pc \in {"collect_org_repos", "collect_org_releases"}
              => health_scores' = health_scores
       /\ \* the score is calculated once, whatever release collection did,
          \* and the request succeeds when the calculation does
          trigger_pc = "calculate_health_score" =>
              /\ health_scores' # health_scores =>
                    /\ calc["p1"].pc = "insert_health_score"
                    /\ calc'["p1"].result = "ok"
                    /\ Len(health_scores') = Len(health_scores) + 1
                    /\ is_prefix(health_scores, health_scores')
                    /\ health_scores'[Len(health_scores')].distro_id
                          = unwrap(fn_arg).distro_id
              /\ calc["p1"].result # "none"
                    => calc' = calc \/ trigger_pc' = "none"
              /\ trigger_pc' = "none" =>
                    /\ unwrap(fn_ret').status = "ok"
                          <=> calc["p1"].result = "ok"
                    /\ calc["p1"].result = "ok" =>
                          /\ health_scores # <<>>
                          /\ health_scores[Len(health_scores)].distro_id
                                = unwrap(fn_arg).distro_id
       /\ \* no source organization: no collection runs
          (trigger_pc = "none" /\ trigger_pc' # "none") =>
              /\ trigger_pc' = (IF trigger_has_org' THEN "collect_org_repos"
                                ELSE "calculate_health_score")
              /\ UNCHANGED <<github_snapshots, release_snapshots,
                             community_snapshots, health_scores>>
      ]_vars

\* C26 witness: a request for the entity without a source organization has
\* succeeded with its one record stored and no snapshot collected, after a
\* request whose release collection inserted nothing succeeded too
C26_Witness ==
    /\ fn_arg = None
    /\ fn_ret = Some([status |-> "ok", step |-> "calculate_health_score"])
    /\ Len(health_scores) = 2
    /\ health_scores[1].distro_id = 1
    /\ health_scores[2].distro_id = 2
    /\ github_snapshots # <<>>
    /\ release_snapshots = <<>>

\* C27: in every rankings list each tracked entity appears exactly once and
\* the ranks are exactly 1..N, without gap or duplicate, N being the number of
\* tracked entities; after any sequence of score calculations, those of one
\* entity recorded with equal calculation times included.
C27_EachEntityOnce ==
    [][rankings_listed =>
          LET list == unwrap(fn_ret').rankings
              n == Len(distributions)
          IN  /\ Len(list) = n
              /\ \A i \in 1..n :
                    Cardinality({r \in 1..Len(list) :
                                    list[r].slug = distributions[i].slug}) = 1
              /\ {list[r].rank : r \in 1..Len(list)} = 1..n
              /\ \A r \in 1..Len(list) : list[r].rank = r]_vars

\* C28: every score record the engine can produce has an overall score
\* between 20.9 and 94.7 inclusive and sub-scores of at least 20 each, so
\* the overall score of a scored entity is above the 0.0 shown for unscored
\* entities, and never 0 or 100.
C28_OverallBounds ==
    (fn_ret # None /\ "utc_now" \in DOMAIN fn_arg /\ ~unwrap(fn_ret).panic) =>
        LET r == unwrap(fn_ret).v
        IN  /\ r.overall_score >= 20900
            /\ r.overall_score <= 94700
            /\ r.development_score >= 20 * Milli
            /\ r.community_score >= 20 * Milli
            /\ r.maintenance_score >= 20 * Milli
            /\ r.overall_score > unscored_entry(distributions[1], 1).overall_score
            /\ r.overall_score # 0
            /\ r.overall_score # 100 * Milli

\* C28 witness: the lowest record, 20.9, of one repository at the lowest range
\* of every metric and a subreddit without subscribers or posts
C28_Witness ==
    /\ fn_ret # None
    /\ "utc_now" \in DOMAIN fn_arg
    /\ Len(fn_arg.github) = 1
    /\ Len(fn_arg.community) = 1
    /\ fn_arg.community[1].active_users_30d = Some(0)
    /\ ~unwrap(fn_ret).panic
    /\ unwrap(fn_ret).v.overall_score = 20900

\* C29: when the social component is present the community score lies
\* between the platform component and the social component,
\* min(platform, social) <= community <= max(platform, social); when it is
\* absent the community score is the platform component exactly.
C29_CommunityBetween ==
    (is_some(fn_ret) /\ "community" \in DOMAIN fn_arg
       /\ ~("releases" \in DOMAIN fn_arg) /\ ~("utc_now" \in DOMAIN fn_arg)
       /\ ~unwrap(fn_ret).panic) =>
        LET social_rows == SelectSeq(fn_arg.community, has_social_prefix)
            platform == github_component(fn_arg.github)
            social == calculate_reddit_score(social_rows)
            community == unwrap(fn_ret).v
        IN  IF social_rows # <<>>
            THEN /\ community >= Min(platform, social)
                 /\ community <= -Min(-platform, -social)
            ELSE community = platform

\* C29 witness: a social component below the platform component has pulled
\* the community score down, strictly between the two
C29_Witness ==
    /\ is_some(fn_ret)
    /\ "community" \in DOMAIN fn_arg
    /\ ~("releases" \in DOMAIN fn_arg)
    /\ ~("utc_now" \in DOMAIN fn_arg)
    /\ ~unwrap(fn_ret).panic
    /\ LET social_rows == SelectSeq(fn_arg.community, has_social_prefix)
       IN  /\ social_rows # <<>>
           /\ unwrap(fn_ret).v < github_component(fn_arg.github)
           /\ unwrap(fn_ret).v > calculate_reddit_score(social_rows)

\* The last-commit timestamps a snapshot may be given instead of its own: those
\* of the snapshots given, the calculation time, and a day after it
LaterTimes ==
    {unwrap(r.last_commit_at) :
        r \in {x \in MaintenanceRows : x.last_commit_at # None}}
    \cup {fn_arg.utc_now, fn_arg.utc_now + DayLen}

\* C30: for a fixed calculation time and fixed issue and PR totals the
\* maintenance score is non-decreasing in the most recent last-commit
\* timestamp: replacing the greatest last-commit timestamp by any later one,
\* at or after the calculation time too, never lowers the score.
C30_RecencyMonotone ==
    (is_some(fn_ret) /\ "utc_now" \in DOMAIN fn_arg
       /\ ~("community" \in DOMAIN fn_arg) /\ ~unwrap(fn_ret).panic) =>
        LET github == fn_arg.github
            reported == {i \in 1..Len(github) : github[i].last_commit_at # None}
            greatest == {i \in reported :
                            \A j \in reported :
                                unwrap(github[j].last_commit_at)
                                    <= unwrap(github[i].last_commit_at)}
        IN  \A i \in greatest : \A t \in LaterTimes :
                t > unwrap(github[i].last_commit_at) =>
                    calculate_maintenance_score(
                        [github EXCEPT ![i].last_commit_at = Some(t)],
                        fn_arg.utc_now)
                    >= unwrap(fn_ret).v

====
